---- MODULE Spec2Model ----
(***************************************************************************)
(* A model of gorocksdb's DB handle (the RWMutex-guarded native handle and *)
(* its opened flag), of the COWList callback registry used by the          *)
(* compaction-filter bridge, of the filter dispatch shim, and of the DB    *)
(* methods over an engine that behaves as a key-to-value map.              *)
(***************************************************************************)
EXTENDS Integers, Sequences, FiniteSets, TLC

\* ------------------------------------------------------------- bounds
\* How many times Close may be invoked on the one DB.
MaxCloses == 2
\* The longest range list handed to the approximate-size / key-count calls.
MaxRanges == 1
\* How many registrations (Append) the registry receives.
MaxAppends == 2
\* The longest key list handed to MultiGetBytes.
MaxKeys == 2
\* The most column-family names, and options, handed to the open functions.
MaxCF == 3
\* How many native rate changes one rate limiter receives.
MaxSets == 2

\* The goroutines calling into the DB, and those using the registry.
Threads == {"t1", "t2"}
RThreads == {"r1", "r2"}
None == "none"

\* ------------------------------------------------------------ DB state
VARIABLES
    opened,        \* DB.opened (int32, 1 after open, 0 after Close)
    c,             \* state of the native rocksdb_t behind DB.c
    nativeCloses,  \* how many times rocksdb_close(db.c) has been called
    readers,       \* goroutines holding DB.RWMutex shared
    writer,        \* goroutine holding DB.RWMutex exclusively
    pendingW,      \* goroutine that has announced Lock() (blocks new RLock)
    pc, op,        \* per goroutine: position in, and name of, the DB method
    res,           \* per goroutine: what the method returned
    errText,       \* per goroutine: message of the error it returned
    cErr,          \* per goroutine: the engine's error out-parameter
    saw,           \* per goroutine: the value of db.opened the method read
    ncalls,        \* per goroutine: native calls made by this call
    nlocks,        \* per goroutine: db.RLock() acquisitions by this call
    nkeys,         \* MultiGetBytes, per goroutine: len(keyList)
    cKeys,         \* ... how often each cKeys[i] buffer has been freed
    cValues,       \* ... cValues[i] as the engine left it
    cErrs,         \* ... cErrs[i] as the engine left it
    values,        \* ... the caller's values[i]
    errs,          \* ... the caller's errs[i]
    cRanges,       \* per goroutine: how often each buffer made by cByteSlice
                   \* for a range bound (cStarts, cLimits) has been freed
    late,          \* per goroutine: the call began after a Close had returned
    nranges,       \* per goroutine: len(ranges) argument
    includeMem,    \* per goroutine: includeMem argument
    nClose,        \* Close invocations so far
    closeDone,     \* some Close has returned
    crashed        \* the process died in a native call on a released handle

\* ------------------------------------------------------- registry state
VARIABLES
    v,             \* COWList.v: the published list
    mu,            \* COWList.mu: its holder
    nextAddr,      \* next address C.CString hands out
    rpc, rop,      \* per goroutine: position in, and name of, the call
    ritem,         \* per goroutine: the wrapper being appended
    ridx,          \* per goroutine: the index argument of Get
    list,          \* per goroutine: the list it loaded
    newList,       \* per goroutine: Append's private copy
    retIdx,        \* per goroutine: index returned by Append
    retItem,       \* per goroutine: item returned by Get
    fault,         \* per goroutine: Get panicked (index out of range)
    validAtCall,   \* per goroutine: Get's index had been returned at call time
    epoch,         \* per goroutine: <<mu, #returns>> when Get loaded the list
    overlap,       \* per goroutine: Get ran inside one Append's critical section
    returned       \* the Appends that returned, in order: [t, idx, item]

callVars == <<errText, nlocks>>
mgSlices == <<nkeys, cKeys, cValues, cErrs, values, errs>>
mgVars == <<mgSlices, cRanges>>
\* ------------------------------------------ filter dispatch, per goroutine
VARIABLES
    fpc,           \* position in gorocksdb_compactionfilter_filter
    fargs,         \* level, key, val as decoded from the engine's buffers
    fres,          \* (remove, newVal) as filter.Filter returned them
    fout,          \* the engine's slots *cNewVal, *cNewValLen, *cValChanged
    fwrote,        \* which of the slots the shim has assigned
    fret           \* the C.int the shim returned

\* ----------------------------------- the DB over a key-to-value engine
VARIABLES
    kvOpened,      \* DB.opened
    kvHandle,      \* state of the rocksdb_t behind DB.c
    kvStore,       \* the engine's contents: key -> [present, val]
    kvLast,        \* the last call the client made, with what it returned
    kvExpect,      \* key -> what the client last wrote there, if anything
    kvScen,        \* how far the client is into put/get/delete/get/close/isopened
    kvCrashed      \* the process died inside the engine

\* ------------------------- OpenDbColumnFamilies and its read-only twin
VARIABLES
    oPc,           \* position in the open function
    oArgs,         \* readOnly, len(cfNames), len(cfOpts), errorIfLogFileExist
    oAllocs,       \* C.CString buffers allocated by this call
    oFrees,        \* ... and how many of them have been freed
    oCalls,        \* native open calls made by this call
    oRet           \* what the call returned: db, cfHandles, err

\* ------------------------------------------------------ RateLimiter
VARIABLES
    rlC,           \* RateLimiter.c: "ptr" or "nil"
    rlNative,      \* the rocksdb_ratelimiter_t behind it: alive, rate
    rlSets,        \* native set-rate calls received by the limiter
    rlLast         \* the last method called, its argument, r.c as it found
                   \* it, and the native calls it made

dbVars == <<opened, c, nativeCloses, readers, writer, pendingW, pc, op, res,
            cErr, saw, ncalls, late, nranges, includeMem, nClose, closeDone,
            crashed, callVars, mgVars>>
regVars == <<v, mu, nextAddr, rpc, rop, ritem, ridx, list, newList, retIdx,
             retItem, fault, validAtCall, epoch, overlap, returned>>
fltVars == <<fpc, fargs, fres, fout, fwrote, fret>>
kvVars == <<kvOpened, kvHandle, kvStore, kvLast, kvExpect, kvScen, kvCrashed>>
openVars == <<oPc, oArgs, oAllocs, oFrees, oCalls, oRet>>
rlVars == <<rlC, rlNative, rlSets, rlLast>>
vars == <<dbVars, regVars, fltVars, kvVars, openVars, rlVars>>
\* What the steps of each part leave alone.
notDB == <<regVars, fltVars, kvVars, openVars, rlVars>>
notReg == <<dbVars, fltVars, kvVars, openVars, rlVars>>
notKV == <<dbVars, regVars, fltVars, openVars, rlVars>>
notFlt == <<dbVars, kvVars, openVars, rlVars>>
notOpen == <<dbVars, regVars, fltVars, kvVars, rlVars>>
notRL == <<dbVars, regVars, fltVars, kvVars, openVars>>

\* ------------------------------------------------- the DB's method table
\* RLock, check opened, return errDBClosed when closed; the native call has
\* an error out-parameter.
GuardedErrOps == {"Get", "GetBytes", "GetCF", "Merge", "MergeCF", "Flush",
                  "DisableFileDeletions", "EnableFileDeletions"}
\* RLock, check opened, return a default (or nothing) when closed.
GuardedSilentOps == {"GetProperty", "GetPropertyCF", "GetApproximateSizes",
                     "GetApproximateSizesCF", "GetApproximateKeyNum",
                     "GetLiveFilesMetaData", "CompactRange", "CompactRangeCF",
                     "DeleteFile", "Shutdown"}
\* No lock and no check: straight into the engine.
UnguardedOps == {"Put", "PutCF", "Delete", "DeleteCF", "Write",
                 "CreateColumnFamily", "DropColumnFamily",
                 "DeleteFilesInRange"}
\* Read opened without the lock, then call the engine without the lock.
FlagOnlyOps == {"NewIterator", "NewIteratorCF", "NewSnapshot",
                "GetBytesNoLock"}
SizesOps == {"GetApproximateSizes", "GetApproximateSizesCF"}
RangeOps == SizesOps \cup {"GetApproximateKeyNum"}
DataOps == GuardedErrOps \cup GuardedSilentOps \cup UnguardedOps
              \cup FlagOnlyOps
\* The package-level functions: they take a path, not a DB, and make one
\* native call with an error out-parameter.
StaticOps == {"OpenDb", "OpenDbForReadOnly", "ListColumnFamilies",
              "DestroyDb", "RepairDb"}
Ops == DataOps \cup StaticOps \cup {"Close", "IsOpened"}

TakesRLock(o) == o \in GuardedErrOps \cup GuardedSilentOps
                          \cup {"MultiGetBytes"}
\* The native call takes &cErr.
HasErr(o) == o \in GuardedErrOps \cup UnguardedOps \cup StaticOps
                     \cup {"GetBytesNoLock"}
\* The messages the engine may report.
ErrMsgs == {"IO error", "Corruption"}
\* A nil *C.char, and the C string the engine allocates for a message.
NullC == [addr |-> 0, str |-> ""]
EngineString(s) == [addr |-> 1, str |-> s]
\* C.GoString(p): the bytes of the C string at p, as a Go string.
GoString(p) == p.str

\* What each method returns when it finds opened == 0.
ClosedResult(o) ==
    CASE o \in GuardedErrOps \cup FlagOnlyOps -> "errDBClosed"
      [] o \in {"GetProperty", "GetPropertyCF"} -> "emptyString"
      [] o \in SizesOps \cup {"GetLiveFilesMetaData"} -> "nil"
      [] o = "GetApproximateKeyNum" -> "zero"
      [] OTHER -> "void"

\* What each method returns after a native call that reported no error.
SuccessResult(o) ==
    CASE o \in {"CompactRange", "CompactRangeCF", "DeleteFile", "Shutdown"}
            -> "void"
      [] o \in UnguardedOps \ {"CreateColumnFamily"} -> "nilError"
      [] o \in {"DestroyDb", "RepairDb"} -> "nilError"
      [] o \in {"Merge", "MergeCF", "Flush", "DisableFileDeletions",
                "EnableFileDeletions"} -> "nilError"
      [] OTHER -> "value"

\* What each method returns for an empty range list, before taking the lock.
EmptyResult(o) == IF o \in SizesOps THEN "emptySlice" ELSE "zero"

\* The results that tell the caller the DB is closed.
IsClosedError(r) == r = "errDBClosed"

InitDB ==
    /\ opened = 1
    /\ c = "live"
    /\ nativeCloses = 0
    /\ readers = {}
    /\ writer = None
    /\ pendingW = None
    /\ pc = [t \in Threads |-> "idle"]
    /\ op = [t \in Threads |-> None]
    /\ res = [t \in Threads |-> None]
    /\ cErr = [t \in Threads |-> NullC]
    /\ saw = [t \in Threads |-> -1]
    /\ ncalls = [t \in Threads |-> 0]
    /\ late = [t \in Threads |-> FALSE]
    /\ nranges = [t \in Threads |-> 0]
    /\ includeMem = [t \in Threads |-> FALSE]
    /\ nClose = 0
    /\ closeDone = FALSE
    /\ crashed = FALSE
    /\ errText = [t \in Threads |-> ""]
    /\ nlocks = [t \in Threads |-> 0]
    /\ nkeys = [t \in Threads |-> 0]
    /\ cKeys = [t \in Threads |-> <<>>]
    /\ cValues = [t \in Threads |-> <<>>]
    /\ cErrs = [t \in Threads |-> <<>>]
    /\ values = [t \in Threads |-> <<>>]
    /\ errs = [t \in Threads |-> <<>>]
    /\ cRanges = [t \in Threads |-> <<>>]

\* A goroutine invokes method o: arguments are marshalled (byteToChar,
\* C.CString), nothing shared is touched yet.
Call(t, o, n, m) ==
    /\ ~crashed
    /\ pc[t] = "idle"
    /\ o = "Close" => nClose < MaxCloses
    /\ n > 0 => o \in RangeOps
    /\ m => o \in SizesOps
    /\ op' = [op EXCEPT ![t] = o]
    /\ pc' = [pc EXCEPT ![t] = "start"]
    /\ res' = [res EXCEPT ![t] = None]
    /\ cErr' = [cErr EXCEPT ![t] = NullC]
    /\ errText' = [errText EXCEPT ![t] = ""]
    /\ nlocks' = [nlocks EXCEPT ![t] = 0]
    /\ saw' = [saw EXCEPT ![t] = -1]
    /\ ncalls' = [ncalls EXCEPT ![t] = 0]
    /\ late' = [late EXCEPT ![t] = closeDone]
    /\ nranges' = [nranges EXCEPT ![t] = n]
    /\ includeMem' = [includeMem EXCEPT ![t] = m]
    /\ nClose' = IF o = "Close" THEN nClose + 1 ELSE nClose
    /\ UNCHANGED <<opened, c, nativeCloses, readers, writer, pendingW,
                   closeDone, crashed>>
    /\ UNCHANGED mgVars
    /\ UNCHANGED notDB

\* The caller has taken the method's result; the goroutine is free to make
\* its next call.
Forget(t) ==
    /\ ~crashed
    /\ pc[t] = "done"
    /\ pc' = [pc EXCEPT ![t] = "idle"]
    /\ op' = [op EXCEPT ![t] = None]
    /\ res' = [res EXCEPT ![t] = None]
    /\ cErr' = [cErr EXCEPT ![t] = NullC]
    /\ errText' = [errText EXCEPT ![t] = ""]
    /\ nlocks' = [nlocks EXCEPT ![t] = 0]
    /\ saw' = [saw EXCEPT ![t] = -1]
    /\ ncalls' = [ncalls EXCEPT ![t] = 0]
    /\ late' = [late EXCEPT ![t] = FALSE]
    /\ nranges' = [nranges EXCEPT ![t] = 0]
    /\ includeMem' = [includeMem EXCEPT ![t] = FALSE]
    /\ UNCHANGED <<opened, c, nativeCloses, readers, writer, pendingW,
                   nClose, closeDone, crashed>>
    /\ nkeys' = [nkeys EXCEPT ![t] = 0]
    /\ cKeys' = [cKeys EXCEPT ![t] = <<>>]
    /\ cValues' = [cValues EXCEPT ![t] = <<>>]
    /\ cErrs' = [cErrs EXCEPT ![t] = <<>>]
    /\ values' = [values EXCEPT ![t] = <<>>]
    /\ errs' = [errs EXCEPT ![t] = <<>>]
    /\ cRanges' = [cRanges EXCEPT ![t] = <<>>]
    /\ UNCHANGED notDB

\* EarlyReturn handing back a nil slice (var sizes []uint64) for no ranges.
EarlyReturn_NilSizes(t) ==
    /\ ~crashed
    /\ pc[t] = "start"
    /\ op[t] \in RangeOps
    /\ nranges[t] = 0
    /\ res' = [res EXCEPT ![t] = IF op[t] \in SizesOps THEN "nil" ELSE EmptyResult(op[t])]
    /\ pc' = [pc EXCEPT ![t] = "done"]
    /\ UNCHANGED <<opened, c, nativeCloses, readers, writer, pendingW, op,
                   cErr, saw, ncalls, late, nranges, includeMem, nClose,
                   closeDone, crashed>>
    /\ UNCHANGED <<callVars, mgVars>>
    /\ UNCHANGED notDB

\* len(ranges) == 0: return before the lock is taken.
EarlyReturn(t) ==
    /\ ~crashed
    /\ pc[t] = "start"
    /\ op[t] \in RangeOps
    /\ nranges[t] = 0
    /\ res' = [res EXCEPT ![t] = EmptyResult(op[t])]
    /\ pc' = [pc EXCEPT ![t] = "done"]
    /\ UNCHANGED <<opened, c, nativeCloses, readers, writer, pendingW, op,
                   cErr, saw, ncalls, late, nranges, includeMem, nClose,
                   closeDone, crashed>>
    /\ UNCHANGED <<callVars, mgVars>>
    /\ UNCHANGED notDB

\* RLock as a plain mutex: it also waits for the other readers.
RLock_Exclusive(t) ==
    /\ ~crashed
    /\ pc[t] = "start"
    /\ TakesRLock(op[t])
    /\ op[t] \in RangeOps => nranges[t] > 0
    /\ writer = None
    /\ pendingW = None
    /\ readers = {}
    /\ readers' = readers \cup {t}
    /\ nlocks' = [nlocks EXCEPT ![t] = @ + 1]
    /\ pc' = [pc EXCEPT ![t] = "locked"]
    /\ UNCHANGED <<opened, c, nativeCloses, writer, pendingW, op, res, cErr,
                   saw, ncalls, late, nranges, includeMem, nClose, closeDone,
                   crashed>>
    /\ UNCHANGED <<errText, mgVars>>
    /\ UNCHANGED notDB

\* db.RLock(): blocks while a writer holds or has announced the lock.
RLock(t) ==
    /\ ~crashed
    /\ pc[t] = "start"
    /\ TakesRLock(op[t])
    /\ op[t] \in RangeOps => nranges[t] > 0
    /\ writer = None
    /\ pendingW = None
    /\ readers' = readers \cup {t}
    /\ nlocks' = [nlocks EXCEPT ![t] = @ + 1]
    /\ pc' = [pc EXCEPT ![t] = "locked"]
    /\ UNCHANGED <<opened, c, nativeCloses, writer, pendingW, op, res, cErr,
                   saw, ncalls, late, nranges, includeMem, nClose, closeDone,
                   crashed>>
    /\ UNCHANGED <<errText, mgVars>>
    /\ UNCHANGED notDB

\* CheckOpened releasing the shared lock as soon as the flag has been read.
CheckOpened_DropsLock(t) ==
    /\ ~crashed
    /\ pc[t] = "locked"
    /\ saw' = [saw EXCEPT ![t] = opened]
    /\ readers' = readers \ {t}
    /\ pc' = [pc EXCEPT ![t] = IF opened = 0 THEN "closed" ELSE "open"]
    /\ UNCHANGED <<opened, c, nativeCloses, writer, pendingW, op, res, cErr,
                   ncalls, late, nranges, includeMem, nClose, closeDone,
                   crashed>>
    /\ UNCHANGED <<callVars, mgVars>>
    /\ UNCHANGED notDB

\* if db.opened == 0, read while holding the shared lock.
CheckOpened(t) ==
    /\ ~crashed
    /\ pc[t] = "locked"
    /\ saw' = [saw EXCEPT ![t] = opened]
    /\ pc' = [pc EXCEPT ![t] = IF opened = 0 THEN "closed" ELSE "open"]
    /\ UNCHANGED <<opened, c, nativeCloses, readers, writer, pendingW, op,
                   res, cErr, ncalls, late, nranges, includeMem, nClose,
                   closeDone, crashed>>
    /\ UNCHANGED <<callVars, mgVars>>
    /\ UNCHANGED notDB

\* if db.opened == 0 (NewIterator, NewIteratorCF, NewSnapshot) and
\* atomic.LoadInt32(&db.opened) == 0 (GetBytesNoLock): no lock is held. A
\* plain read that races with Close's store yields the old or the new
\* value, which the interleaving of this step with StoreOpened covers.
ReadFlag(t) ==
    /\ ~crashed
    /\ pc[t] = "start"
    /\ op[t] \in FlagOnlyOps
    /\ saw' = [saw EXCEPT ![t] = opened]
    /\ pc' = [pc EXCEPT ![t] = IF opened = 0 THEN "closed" ELSE "open"]
    /\ UNCHANGED <<opened, c, nativeCloses, readers, writer, pendingW, op,
                   res, cErr, ncalls, late, nranges, includeMem, nClose,
                   closeDone, crashed>>
    /\ UNCHANGED <<callVars, mgVars>>
    /\ UNCHANGED notDB

\* ClosedReturn with the db.RUnlock() of the closed branch forgotten.
ClosedReturn_NoRUnlock(t) ==
    /\ ~crashed
    /\ pc[t] = "closed"
    /\ op[t] # "MultiGetBytes"
    /\ res' = [res EXCEPT ![t] = ClosedResult(op[t])]
    /\ pc' = [pc EXCEPT ![t] = "done"]
    /\ UNCHANGED <<opened, c, nativeCloses, readers, writer, pendingW, op,
                   cErr, saw, ncalls, late, nranges, includeMem, nClose,
                   closeDone, crashed>>
    /\ UNCHANGED <<callVars, mgVars>>
    /\ UNCHANGED notDB

\* The closed branch: db.RUnlock() (when the lock was taken) and return.
ClosedReturn(t) ==
    /\ ~crashed
    /\ pc[t] = "closed"
    /\ op[t] # "MultiGetBytes"
    /\ readers' = IF TakesRLock(op[t]) THEN readers \ {t} ELSE readers
    /\ res' = [res EXCEPT ![t] = ClosedResult(op[t])]
    /\ pc' = [pc EXCEPT ![t] = "done"]
    /\ UNCHANGED <<opened, c, nativeCloses, writer, pendingW, op, cErr, saw,
                   ncalls, late, nranges, includeMem, nClose, closeDone,
                   crashed>>
    /\ UNCHANGED <<callVars, mgVars>>
    /\ UNCHANGED notDB

\* How many range-bound buffers the method makes with cByteSlice on its way
\* to the native call: cStarts[i] and cLimits[i] for every range, cStart and
\* cLimit in the compactions (CompactRange makes none when r.Start and
\* r.Limit are both nil).
CompactOps == {"CompactRange", "CompactRangeCF"}
BoundBuffers(o, n) ==
    CASE o \in RangeOps -> {2 * n}
      [] o = "CompactRangeCF" -> {2}
      [] o = "CompactRange" -> {0, 2}
      [] OTHER -> {0}

\* NativeBegin with the unguarded methods reading db.opened on their way in.
NativeBegin_ReadsFlag(t) ==
    /\ ~crashed
    /\ op[t] \in DataOps \cup StaticOps
    /\ \/ pc[t] = "open"
       \/ pc[t] = "start" /\ op[t] \in UnguardedOps \cup StaticOps
    /\ pc' = [pc EXCEPT ![t] = "native"]
    /\ ncalls' = [ncalls EXCEPT ![t] = @ + 1]
    /\ saw' = [saw EXCEPT ![t] = IF pc[t] = "start" THEN opened ELSE @]
    /\ \E k \in BoundBuffers(op[t], nranges[t]) :
          cRanges' = [cRanges EXCEPT ![t] =
                         IF ncalls[t] = 0 THEN [i \in 1..k |-> 0] ELSE @]
    /\ UNCHANGED <<opened, c, nativeCloses, readers, writer, pendingW, op,
                   res, cErr, late, nranges, includeMem, nClose,
                   closeDone, crashed>>
    /\ UNCHANGED <<callVars, mgSlices>>
    /\ UNCHANGED notDB

\* The goroutine enters the engine: C.rocksdb_get(db.c, ...) etc. with the
\* DB's handle, C.rocksdb_open(opts.c, cName, &cErr) etc. with a path.
NativeBegin(t) ==
    /\ ~crashed
    /\ op[t] \in DataOps \cup StaticOps
    /\ \/ pc[t] = "open"
       \/ pc[t] = "start" /\ op[t] \in UnguardedOps \cup StaticOps
    /\ pc' = [pc EXCEPT ![t] = "native"]
    /\ ncalls' = [ncalls EXCEPT ![t] = @ + 1]
    /\ \E k \in BoundBuffers(op[t], nranges[t]) :
          cRanges' = [cRanges EXCEPT ![t] =
                         IF ncalls[t] = 0 THEN [i \in 1..k |-> 0] ELSE @]
    /\ UNCHANGED <<opened, c, nativeCloses, readers, writer, pendingW, op,
                   res, cErr, saw, late, nranges, includeMem, nClose,
                   closeDone, crashed>>
    /\ UNCHANGED <<callVars, mgSlices>>
    /\ UNCHANGED notDB

\* What the engine can do with the call: on a live handle it succeeds or,
\* where the call has an error channel, reports a message; on a handle that
\* is being or has been destroyed the behaviour is undefined (any of these,
\* or a crash).
Outcomes(o, h) ==
    {""} \cup (IF HasErr(o) THEN ErrMsgs ELSE {})
         \cup (IF h # "live" THEN {"fault"} ELSE {})

\* includeMem: rocksdb_approximate_memtable_sizes follows under the same lock.
SecondCall(t) == op[t] \in SizesOps /\ includeMem[t] /\ ncalls[t] = 1

\* NativeEnd with rocksdb_shutdown followed by a store of 0 to db.opened.
NativeEnd_ShutdownClearsFlag(t) ==
    /\ ~crashed
    /\ op[t] \in DataOps \cup StaticOps
    /\ pc[t] = "native"
    /\ \E out \in Outcomes(op[t], IF op[t] \in StaticOps THEN "live" ELSE c) :
          IF out = "fault"
          THEN /\ crashed' = TRUE
               /\ pc' = [pc EXCEPT ![t] = "fault"]
               /\ UNCHANGED cErr
          ELSE /\ crashed' = crashed
               /\ cErr' = [cErr EXCEPT ![t] =
                              IF out = "" THEN NullC ELSE EngineString(out)]
               /\ pc' = [pc EXCEPT ![t] =
                            IF SecondCall(t) THEN "open"
                            ELSE IF TakesRLock(op[t]) THEN "post"
                            ELSE "unlocked"]
    /\ opened' = IF op[t] = "Shutdown" THEN 0 ELSE opened
    /\ UNCHANGED <<c, nativeCloses, readers, writer, pendingW, op,
                   res, saw, ncalls, late, nranges, includeMem, nClose,
                   closeDone>>
    /\ UNCHANGED <<callVars, mgVars>>
    /\ UNCHANGED notDB

\* The native call returns (or takes the process down).
NativeEnd(t) ==
    /\ ~crashed
    /\ op[t] \in DataOps \cup StaticOps
    /\ pc[t] = "native"
    /\ \E out \in Outcomes(op[t], IF op[t] \in StaticOps THEN "live" ELSE c) :
          IF out = "fault"
          THEN /\ crashed' = TRUE
               /\ pc' = [pc EXCEPT ![t] = "fault"]
               /\ UNCHANGED cErr
          ELSE /\ crashed' = crashed
               /\ cErr' = [cErr EXCEPT ![t] =
                              IF out = "" THEN NullC ELSE EngineString(out)]
               /\ pc' = [pc EXCEPT ![t] =
                            IF SecondCall(t) THEN "open"
                            ELSE IF TakesRLock(op[t]) THEN "post"
                            ELSE "unlocked"]
    /\ UNCHANGED <<opened, c, nativeCloses, readers, writer, pendingW, op,
                   res, saw, ncalls, late, nranges, includeMem, nClose,
                   closeDone>>
    /\ UNCHANGED <<callVars, mgVars>>
    /\ UNCHANGED notDB

\* db.RUnlock() after the native call.
RUnlock(t) ==
    /\ ~crashed
    /\ pc[t] = "post"
    /\ TakesRLock(op[t])
    /\ readers' = readers \ {t}
    /\ pc' = [pc EXCEPT ![t] = "unlocked"]
    /\ UNCHANGED <<opened, c, nativeCloses, writer, pendingW, op, res, cErr,
                   saw, ncalls, late, nranges, includeMem, nClose, closeDone,
                   crashed>>
    /\ UNCHANGED <<callVars, mgVars>>
    /\ UNCHANGED notDB

\* Return without the loop (or the deferred calls) freeing the range bounds.
Return_KeepsBounds(t) ==
    /\ ~crashed
    /\ pc[t] = "unlocked"
    /\ op[t] # "MultiGetBytes"
    /\ res' = [res EXCEPT ![t] =
                  IF cErr[t] # NullC THEN "error" ELSE SuccessResult(op[t])]
    /\ errText' = [errText EXCEPT ![t] =
                      IF cErr[t] # NullC THEN GoString(cErr[t]) ELSE ""]
    /\ pc' = [pc EXCEPT ![t] = "done"]
    /\ UNCHANGED <<opened, c, nativeCloses, readers, writer, pendingW, op,
                   cErr, saw, ncalls, late, nranges, includeMem, nClose,
                   closeDone, crashed>>
    /\ UNCHANGED <<nlocks, mgVars>>
    /\ UNCHANGED notDB

\* Return replacing the engine's message by a fixed text.
Return_FixedMessage(t) ==
    /\ ~crashed
    /\ pc[t] = "unlocked"
    /\ op[t] # "MultiGetBytes"
    /\ res' = [res EXCEPT ![t] =
                  IF cErr[t] # NullC THEN "error" ELSE SuccessResult(op[t])]
    /\ errText' = [errText EXCEPT ![t] =
                      IF cErr[t] # NullC THEN "IO error" ELSE ""]
    /\ pc' = [pc EXCEPT ![t] = "done"]
    /\ cRanges' = [cRanges EXCEPT ![t] = [i \in 1..Len(@) |-> @[i] + 1]]
    /\ UNCHANGED <<opened, c, nativeCloses, readers, writer, pendingW, op,
                   cErr, saw, ncalls, late, nranges, includeMem, nClose,
                   closeDone, crashed>>
    /\ UNCHANGED <<nlocks, mgSlices>>
    /\ UNCHANGED notDB

\* The range-bound buffers are freed (the loop over cStarts, the deferred
\* frees of the compactions); if cErr != nil { return
\* errors.New(C.GoString(cErr)) }; return value.
Return(t) ==
    /\ ~crashed
    /\ pc[t] = "unlocked"
    /\ op[t] # "MultiGetBytes"
    /\ res' = [res EXCEPT ![t] =
                  IF cErr[t] # NullC THEN "error" ELSE SuccessResult(op[t])]
    /\ errText' = [errText EXCEPT ![t] =
                      IF cErr[t] # NullC THEN GoString(cErr[t]) ELSE ""]
    /\ pc' = [pc EXCEPT ![t] = "done"]
    /\ cRanges' = [cRanges EXCEPT ![t] = [i \in 1..Len(@) |-> @[i] + 1]]
    /\ UNCHANGED <<opened, c, nativeCloses, readers, writer, pendingW, op,
                   cErr, saw, ncalls, late, nranges, includeMem, nClose,
                   closeDone, crashed>>
    /\ UNCHANGED <<nlocks, mgSlices>>
    /\ UNCHANGED notDB

\* IsOpened: atomic.LoadInt32(&db.opened) != 0.
IsOpened(t) ==
    /\ ~crashed
    /\ pc[t] = "start"
    /\ op[t] = "IsOpened"
    /\ saw' = [saw EXCEPT ![t] = opened]
    /\ res' = [res EXCEPT ![t] = IF opened # 0 THEN "true" ELSE "false"]
    /\ pc' = [pc EXCEPT ![t] = "done"]
    /\ UNCHANGED <<opened, c, nativeCloses, readers, writer, pendingW, op,
                   cErr, ncalls, late, nranges, includeMem, nClose,
                   closeDone, crashed>>
    /\ UNCHANGED <<callVars, mgVars>>
    /\ UNCHANGED notDB

\* Close: db.Lock(), first half: the writer announces itself, which holds
\* back other writers and every new reader.
LockAnnounce(t) ==
    /\ ~crashed
    /\ pc[t] = "start"
    /\ op[t] = "Close"
    /\ pendingW = None
    /\ pendingW' = t
    /\ pc' = [pc EXCEPT ![t] = "lockwait"]
    /\ UNCHANGED <<opened, c, nativeCloses, readers, writer, op, res, cErr,
                   saw, ncalls, late, nranges, includeMem, nClose, closeDone,
                   crashed>>
    /\ UNCHANGED <<callVars, mgVars>>
    /\ UNCHANGED notDB

\* LockAcquire not waiting for the readers to leave.
LockAcquire_NoWait(t) ==
    /\ ~crashed
    /\ pc[t] = "lockwait"
    /\ writer' = t
    /\ pc' = [pc EXCEPT ![t] = "wlocked"]
    /\ UNCHANGED <<opened, c, nativeCloses, readers, pendingW, op, res, cErr,
                   saw, ncalls, late, nranges, includeMem, nClose, closeDone,
                   crashed>>
    /\ UNCHANGED <<callVars, mgVars>>
    /\ UNCHANGED notDB

\* Close: db.Lock(), second half: the readers have left.
LockAcquire(t) ==
    /\ ~crashed
    /\ pc[t] = "lockwait"
    /\ readers = {}
    /\ writer' = t
    /\ pc' = [pc EXCEPT ![t] = "wlocked"]
    /\ UNCHANGED <<opened, c, nativeCloses, readers, pendingW, op, res, cErr,
                   saw, ncalls, late, nranges, includeMem, nClose, closeDone,
                   crashed>>
    /\ UNCHANGED <<callVars, mgVars>>
    /\ UNCHANGED notDB

\* Close: C.rocksdb_close(db.c) is entered; the handle starts to go away.
CloseNativeBegin(t) ==
    /\ ~crashed
    /\ pc[t] = "wlocked"
    /\ pc' = [pc EXCEPT ![t] = "native"]
    /\ ncalls' = [ncalls EXCEPT ![t] = @ + 1]
    /\ nativeCloses' = nativeCloses + 1
    /\ c' = IF c = "live" THEN "closing" ELSE c
    /\ UNCHANGED <<opened, readers, writer, pendingW, op, res, cErr, saw,
                   late, nranges, includeMem, nClose, closeDone, crashed>>
    /\ UNCHANGED <<callVars, mgVars>>
    /\ UNCHANGED notDB

\* Close: C.rocksdb_close returns with the handle released. Closing a
\* handle that was already released is undefined: it returns or crashes.
CloseNativeEnd(t) ==
    /\ ~crashed
    /\ op[t] = "Close"
    /\ pc[t] = "native"
    /\ \/ /\ c' = "freed"
          /\ pc' = [pc EXCEPT ![t] = "closedNative"]
          /\ UNCHANGED crashed
       \/ /\ c = "freed"
          /\ crashed' = TRUE
          /\ pc' = [pc EXCEPT ![t] = "fault"]
          /\ UNCHANGED c
    /\ UNCHANGED <<opened, nativeCloses, readers, writer, pendingW, op, res,
                   cErr, saw, ncalls, late, nranges, includeMem, nClose,
                   closeDone>>
    /\ UNCHANGED <<callVars, mgVars>>
    /\ UNCHANGED notDB

\* Close: atomic.StoreInt32(&db.opened, 0).
StoreOpened(t) ==
    /\ ~crashed
    /\ pc[t] = "closedNative"
    /\ opened' = 0
    /\ pc' = [pc EXCEPT ![t] = "stored"]
    /\ UNCHANGED <<c, nativeCloses, readers, writer, pendingW, op, res, cErr,
                   saw, ncalls, late, nranges, includeMem, nClose, closeDone,
                   crashed>>
    /\ UNCHANGED <<callVars, mgVars>>
    /\ UNCHANGED notDB

\* Close: db.Unlock() and return.
Unlock(t) ==
    /\ ~crashed
    /\ pc[t] = "stored"
    /\ writer' = None
    /\ pendingW' = None
    /\ res' = [res EXCEPT ![t] = "void"]
    /\ pc' = [pc EXCEPT ![t] = "done"]
    /\ closeDone' = TRUE
    /\ UNCHANGED <<opened, c, nativeCloses, readers, op, cErr, saw, ncalls,
                   late, nranges, includeMem, nClose, crashed>>
    /\ UNCHANGED <<callVars, mgVars>>
    /\ UNCHANGED notDB

\* ------------------------------------------------------- MultiGetBytes
\* The error values a caller can find in errs[i]: what the caller put there,
\* errDBClosed, and errors.New(text).
Unset == [kind |-> "unset", text |-> ""]
ErrDBClosed == [kind |-> "errDBClosed", text |-> "db engine closed"]
NewError(s) == [kind |-> "error", text |-> s]
\* A nil error.
NilError == [kind |-> "nil", text |-> ""]

\* What rocksdb_multi_get can leave in (cValues[i], cErrs[i]) for one key:
\* a value, no value, or a message.
KeyOutcomes ==
    {[val |-> "ptr", err |-> NullC], [val |-> "null", err |-> NullC]}
        \cup {[val |-> "null", err |-> EngineString(m)] : m \in ErrMsgs}

\* MultiGetBytes(opts, keyList, values, errs) with len(keyList) = k: the
\* five make() calls and the loop that copies every key into a C buffer.
MultiGetBytes(t, k) ==
    /\ ~crashed
    /\ pc[t] = "idle"
    /\ op' = [op EXCEPT ![t] = "MultiGetBytes"]
    /\ pc' = [pc EXCEPT ![t] = "start"]
    /\ res' = [res EXCEPT ![t] = None]
    /\ cErr' = [cErr EXCEPT ![t] = NullC]
    /\ errText' = [errText EXCEPT ![t] = ""]
    /\ nlocks' = [nlocks EXCEPT ![t] = 0]
    /\ saw' = [saw EXCEPT ![t] = -1]
    /\ ncalls' = [ncalls EXCEPT ![t] = 0]
    /\ late' = [late EXCEPT ![t] = closeDone]
    /\ nkeys' = [nkeys EXCEPT ![t] = k]
    /\ cKeys' = [cKeys EXCEPT ![t] = [i \in 1..k |-> 0]]
    /\ cValues' = [cValues EXCEPT ![t] = [i \in 1..k |-> "null"]]
    /\ cErrs' = [cErrs EXCEPT ![t] = [i \in 1..k |-> NullC]]
    /\ values' = [values EXCEPT ![t] = [i \in 1..k |-> "unset"]]
    /\ errs' = [errs EXCEPT ![t] = [i \in 1..k |-> Unset]]
    /\ UNCHANGED <<opened, c, nativeCloses, readers, writer, pendingW,
                   nranges, includeMem, nClose, closeDone, crashed, cRanges>>
    /\ UNCHANGED notDB

\* MultiGetBytes, the else branch of if db.opened == 1: every element gets
\* nil and errDBClosed, every key buffer is freed, db.RUnlock(), return.
MultiGetClosed(t) ==
    /\ ~crashed
    /\ pc[t] = "closed"
    /\ op[t] = "MultiGetBytes"
    /\ values' = [values EXCEPT ![t] = [i \in 1..nkeys[t] |-> "nil"]]
    /\ errs' = [errs EXCEPT ![t] = [i \in 1..nkeys[t] |-> ErrDBClosed]]
    /\ cKeys' = [cKeys EXCEPT ![t] = [i \in 1..nkeys[t] |-> @[i] + 1]]
    /\ readers' = readers \ {t}
    /\ res' = [res EXCEPT ![t] = "void"]
    /\ pc' = [pc EXCEPT ![t] = "done"]
    /\ UNCHANGED <<opened, c, nativeCloses, writer, pendingW, op, cErr, saw,
                   ncalls, late, nranges, includeMem, nClose, closeDone,
                   crashed, callVars, nkeys, cValues, cErrs, cRanges>>
    /\ UNCHANGED notDB

\* MultiGetBytes, the branch db.opened == 1: the arguments &cKeys[0],
\* &cKeySizeList[0], ... are evaluated, which panics (index out of range) on
\* empty slices with the shared lock held; otherwise C.rocksdb_multi_get is
\* entered.
MultiGetNativeBegin(t) ==
    /\ ~crashed
    /\ pc[t] = "open"
    /\ op[t] = "MultiGetBytes"
    /\ IF nkeys[t] = 0
       THEN /\ pc' = [pc EXCEPT ![t] = "panic"]
            /\ UNCHANGED ncalls
       ELSE /\ pc' = [pc EXCEPT ![t] = "native"]
            /\ ncalls' = [ncalls EXCEPT ![t] = @ + 1]
    /\ UNCHANGED <<opened, c, nativeCloses, readers, writer, pendingW, op,
                   res, cErr, saw, late, nranges, includeMem, nClose,
                   closeDone, crashed, callVars, mgVars>>
    /\ UNCHANGED notDB

\* C.rocksdb_multi_get returns, having filled cValues, cValueSizeList and
\* cErrs for every key (undefined on a handle that is not live).
MultiGetNativeEnd(t) ==
    /\ ~crashed
    /\ pc[t] = "native"
    /\ op[t] = "MultiGetBytes"
    /\ \/ /\ \E outs \in [1..nkeys[t] -> KeyOutcomes] :
                /\ cValues' = [cValues EXCEPT ![t] =
                                  [i \in 1..nkeys[t] |-> outs[i].val]]
                /\ cErrs' = [cErrs EXCEPT ![t] =
                                [i \in 1..nkeys[t] |-> outs[i].err]]
          /\ pc' = [pc EXCEPT ![t] = "post"]
          /\ UNCHANGED crashed
       \/ /\ c # "live"
          /\ crashed' = TRUE
          /\ pc' = [pc EXCEPT ![t] = "fault"]
          /\ UNCHANGED <<cValues, cErrs>>
    /\ UNCHANGED <<opened, c, nativeCloses, readers, writer, pendingW, op,
                   res, cErr, saw, ncalls, late, nranges, includeMem, nClose,
                   closeDone, callVars, nkeys, cKeys, values, errs, cRanges>>
    /\ UNCHANGED notDB

\* MultiGetCollect storing nil in errs[i] for the elements that did not fail.
MultiGetCollect_ResetsErrs(t) ==
    /\ ~crashed
    /\ pc[t] = "unlocked"
    /\ op[t] = "MultiGetBytes"
    /\ values' = [values EXCEPT ![t] =
                     [i \in 1..nkeys[t] |->
                         IF cErrs[t][i] = NullC /\ cValues[t][i] # "null"
                         THEN "bytes" ELSE "nil"]]
    /\ errs' = [errs EXCEPT ![t] =
                   [i \in 1..nkeys[t] |->
                       IF cErrs[t][i] = NullC THEN NilError
                       ELSE NewError(GoString(cErrs[t][i]))]]
    /\ cKeys' = [cKeys EXCEPT ![t] = [i \in 1..nkeys[t] |-> @[i] + 1]]
    /\ res' = [res EXCEPT ![t] = "void"]
    /\ pc' = [pc EXCEPT ![t] = "done"]
    /\ UNCHANGED <<opened, c, nativeCloses, readers, writer, pendingW, op,
                   cErr, saw, ncalls, late, nranges, includeMem, nClose,
                   closeDone, crashed, callVars, nkeys, cValues, cErrs, cRanges>>
    /\ UNCHANGED notDB

\* MultiGetBytes after db.RUnlock(): the loop that turns (cValues[i],
\* cErrs[i]) into (values[i], errs[i]) and frees the C buffers.
MultiGetCollect(t) ==
    /\ ~crashed
    /\ pc[t] = "unlocked"
    /\ op[t] = "MultiGetBytes"
    /\ values' = [values EXCEPT ![t] =
                     [i \in 1..nkeys[t] |->
                         IF cErrs[t][i] = NullC /\ cValues[t][i] # "null"
                         THEN "bytes" ELSE "nil"]]
    /\ errs' = [errs EXCEPT ![t] =
                   [i \in 1..nkeys[t] |->
                       IF cErrs[t][i] = NullC THEN @[i]
                       ELSE NewError(GoString(cErrs[t][i]))]]
    /\ cKeys' = [cKeys EXCEPT ![t] = [i \in 1..nkeys[t] |-> @[i] + 1]]
    /\ res' = [res EXCEPT ![t] = "void"]
    /\ pc' = [pc EXCEPT ![t] = "done"]
    /\ UNCHANGED <<opened, c, nativeCloses, readers, writer, pendingW, op,
                   cErr, saw, ncalls, late, nranges, includeMem, nClose,
                   closeDone, crashed, callVars, nkeys, cValues, cErrs, cRanges>>
    /\ UNCHANGED notDB

NextDB ==
    \E t \in Threads :
        \/ /\ pc[t] = "idle"
           /\ \E o \in Ops, n \in 0..MaxRanges, m \in BOOLEAN :
                 Call(t, o, n, m)
        \/ EarlyReturn(t)
        \/ RLock(t)
        \/ CheckOpened(t)
        \/ ReadFlag(t)
        \/ ClosedReturn(t)
        \/ NativeBegin(t)
        \/ NativeEnd(t)
        \/ RUnlock(t)
        \/ Return(t)
        \/ IsOpened(t)
        \/ LockAnnounce(t)
        \/ LockAcquire(t)
        \/ CloseNativeBegin(t)
        \/ CloseNativeEnd(t)
        \/ StoreOpened(t)
        \/ Unlock(t)
        \/ Forget(t)
        \/ /\ pc[t] = "idle"
           /\ \E k \in 0..MaxKeys : MultiGetBytes(t, k)
        \/ MultiGetClosed(t)
        \/ MultiGetNativeBegin(t)
        \/ MultiGetNativeEnd(t)
        \/ MultiGetCollect(t)


\* ------------------------------------------------- the callback registry
\* The compaction filters the host registers; Name() of each.
Filters == {"f1", "native"}
FilterName(f) == IF f = "native" THEN "" ELSE f

\* A nil interface{} slot, as make([]interface{}, n) leaves it.
NilItem == [name |-> [addr |-> 0, str |-> ""], filter |-> None]
\* C.CString(s): a fresh C buffer holding a copy of s.
CString(s, a) == [addr |-> a, str |-> s]
\* compactionFilterWrapper{C.CString(filter.Name()), filter}
Wrapper(f, a) == [name |-> CString(FilterName(f), a), filter |-> f]

\* The indices Get may be asked for: in range, one past, and negative.
Indices == -1..MaxAppends

InitReg ==
    /\ v = <<>>
    /\ mu = None
    /\ nextAddr = 1
    /\ rpc = [t \in RThreads |-> "idle"]
    /\ rop = [t \in RThreads |-> None]
    /\ ritem = [t \in RThreads |-> NilItem]
    /\ ridx = [t \in RThreads |-> 0]
    /\ list = [t \in RThreads |-> <<>>]
    /\ newList = [t \in RThreads |-> <<>>]
    /\ retIdx = [t \in RThreads |-> -1]
    /\ retItem = [t \in RThreads |-> NilItem]
    /\ fault = [t \in RThreads |-> FALSE]
    /\ validAtCall = [t \in RThreads |-> FALSE]
    /\ epoch = [t \in RThreads |-> <<None, 0>>]
    /\ overlap = [t \in RThreads |-> FALSE]
    /\ returned = <<>>

ReturnedIdx == {returned[k].idx : k \in 1..Len(returned)}

\* registerCompactionFilter(filter): builds the wrapper (allocating the C
\* name) and calls compactionFilters.Append with it.
registerCompactionFilter(t, f) ==
    /\ rpc[t] = "idle"
    /\ nextAddr <= MaxAppends
    /\ rop' = [rop EXCEPT ![t] = "Append"]
    /\ ritem' = [ritem EXCEPT ![t] = Wrapper(f, nextAddr)]
    /\ nextAddr' = nextAddr + 1
    /\ rpc' = [rpc EXCEPT ![t] = "lock"]
    /\ retIdx' = [retIdx EXCEPT ![t] = -1]
    /\ retItem' = [retItem EXCEPT ![t] = NilItem]
    /\ fault' = [fault EXCEPT ![t] = FALSE]
    /\ list' = [list EXCEPT ![t] = <<>>]
    /\ validAtCall' = [validAtCall EXCEPT ![t] = FALSE]
    /\ overlap' = [overlap EXCEPT ![t] = FALSE]
    /\ epoch' = [epoch EXCEPT ![t] = <<None, 0>>]
    /\ UNCHANGED <<v, mu, ridx, newList, returned>>
    /\ UNCHANGED notReg

\* AppendLock without the mutex: the goroutine goes on without acquiring it.
AppendLock_NoMutex(t) ==
    /\ rpc[t] = "lock"
    /\ rpc' = [rpc EXCEPT ![t] = "load"]
    /\ UNCHANGED <<v, mu, nextAddr, rop, ritem, ridx, list, newList, retIdx,
                   retItem, fault, validAtCall, epoch, overlap, returned>>
    /\ UNCHANGED notReg

\* c.mu.Lock()
AppendLock(t) ==
    /\ rpc[t] = "lock"
    /\ mu = None
    /\ mu' = t
    /\ rpc' = [rpc EXCEPT ![t] = "load"]
    /\ UNCHANGED <<v, nextAddr, rop, ritem, ridx, list, newList, retIdx,
                   retItem, fault, validAtCall, epoch, overlap, returned>>
    /\ UNCHANGED notReg

\* list := c.v.Load().([]interface{})
AppendLoad(t) ==
    /\ rop[t] = "Append"
    /\ rpc[t] = "load"
    /\ list' = [list EXCEPT ![t] = v]
    /\ rpc' = [rpc EXCEPT ![t] = "make"]
    /\ UNCHANGED <<v, mu, nextAddr, rop, ritem, ridx, newList, retIdx,
                   retItem, fault, validAtCall, epoch, overlap, returned>>
    /\ UNCHANGED notReg

\* AppendMake building in place: the fresh list is published as it is made.
AppendMake_InPlace(t) ==
    /\ rpc[t] = "make"
    /\ newList' = [newList EXCEPT ![t] =
                      [k \in 1..(Len(list[t]) + 1) |-> NilItem]]
    /\ v' = [k \in 1..(Len(list[t]) + 1) |-> NilItem]
    /\ rpc' = [rpc EXCEPT ![t] = "copy"]
    /\ UNCHANGED <<mu, nextAddr, rop, ritem, ridx, list, retIdx, retItem,
                   fault, validAtCall, epoch, overlap, returned>>
    /\ UNCHANGED notReg

\* newLen := len(list) + 1; newList := make([]interface{}, newLen)
AppendMake(t) ==
    /\ rpc[t] = "make"
    /\ newList' = [newList EXCEPT ![t] =
                      [k \in 1..(Len(list[t]) + 1) |-> NilItem]]
    /\ rpc' = [rpc EXCEPT ![t] = "copy"]
    /\ UNCHANGED <<v, mu, nextAddr, rop, ritem, ridx, list, retIdx, retItem,
                   fault, validAtCall, epoch, overlap, returned>>
    /\ UNCHANGED notReg

\* AppendCopy with the copy left out.
AppendCopy_Skip(t) ==
    /\ rpc[t] = "copy"
    /\ rpc' = [rpc EXCEPT ![t] = "set"]
    /\ UNCHANGED <<v, mu, nextAddr, rop, ritem, ridx, list, newList, retIdx,
                   retItem, fault, validAtCall, epoch, overlap, returned>>
    /\ UNCHANGED notReg

\* copy(newList, list)
AppendCopy(t) ==
    /\ rpc[t] = "copy"
    /\ newList' = [newList EXCEPT ![t] =
                      [k \in 1..Len(newList[t]) |->
                          IF k <= Len(list[t]) THEN list[t][k]
                          ELSE newList[t][k]]]
    /\ rpc' = [rpc EXCEPT ![t] = "set"]
    /\ UNCHANGED <<v, mu, nextAddr, rop, ritem, ridx, list, retIdx, retItem,
                   fault, validAtCall, epoch, overlap, returned>>
    /\ UNCHANGED notReg

\* newList[newLen-1] = i
AppendSet(t) ==
    /\ rpc[t] = "set"
    /\ newList' = [newList EXCEPT ![t] =
                      [@ EXCEPT ![Len(list[t]) + 1] = ritem[t]]]
    /\ rpc' = [rpc EXCEPT ![t] = "store"]
    /\ UNCHANGED <<v, mu, nextAddr, rop, ritem, ridx, list, retIdx, retItem,
                   fault, validAtCall, epoch, overlap, returned>>
    /\ UNCHANGED notReg

\* c.v.Store(newList)
AppendStore(t) ==
    /\ rpc[t] = "store"
    /\ v' = newList[t]
    /\ rpc' = [rpc EXCEPT ![t] = "ret"]
    /\ UNCHANGED <<mu, nextAddr, rop, ritem, ridx, list, newList, retIdx,
                   retItem, fault, validAtCall, epoch, overlap, returned>>
    /\ UNCHANGED notReg

\* return newLen - 1, then the deferred c.mu.Unlock()
AppendReturn(t) ==
    /\ rpc[t] = "ret"
    /\ retIdx' = [retIdx EXCEPT ![t] = Len(list[t]) + 1 - 1]
    /\ returned' = Append(returned,
                          [t |-> t, idx |-> Len(list[t]) + 1 - 1,
                           item |-> ritem[t]])
    /\ mu' = IF mu = t THEN None ELSE mu
    /\ list' = [list EXCEPT ![t] = <<>>]
    /\ newList' = [newList EXCEPT ![t] = <<>>]
    /\ rpc' = [rpc EXCEPT ![t] = "done"]
    /\ UNCHANGED <<v, nextAddr, rop, ritem, ridx, retItem, fault,
                   validAtCall, epoch, overlap>>
    /\ UNCHANGED notReg

\* gorocksdb_compactionfilter_name(idx): compactionFilters.Get(idx), whose
\* .name the engine receives.
compactionfilter_name(t, i) ==
    /\ rpc[t] = "idle"
    /\ rop' = [rop EXCEPT ![t] = "Get"]
    /\ ridx' = [ridx EXCEPT ![t] = i]
    /\ rpc' = [rpc EXCEPT ![t] = "load"]
    /\ ritem' = [ritem EXCEPT ![t] = NilItem]
    /\ retIdx' = [retIdx EXCEPT ![t] = -1]
    /\ retItem' = [retItem EXCEPT ![t] = NilItem]
    /\ fault' = [fault EXCEPT ![t] = FALSE]
    /\ list' = [list EXCEPT ![t] = <<>>]
    /\ validAtCall' = [validAtCall EXCEPT ![t] = i \in ReturnedIdx]
    /\ overlap' = [overlap EXCEPT ![t] = FALSE]
    /\ epoch' = [epoch EXCEPT ![t] = <<None, 0>>]
    /\ UNCHANGED <<v, mu, nextAddr, newList, returned>>
    /\ UNCHANGED notReg

\* list := c.v.Load().([]interface{}): no lock is taken.
GetLoad(t) ==
    /\ rop[t] = "Get"
    /\ rpc[t] = "load"
    /\ list' = [list EXCEPT ![t] = v]
    /\ epoch' = [epoch EXCEPT ![t] = <<mu, Len(returned)>>]
    /\ rpc' = [rpc EXCEPT ![t] = "index"]
    /\ UNCHANGED <<v, mu, nextAddr, rop, ritem, ridx, newList, retIdx,
                   retItem, fault, validAtCall, overlap, returned>>
    /\ UNCHANGED notReg

\* GetIndex answering an out-of-range index with nil instead of a panic.
GetIndex_NoPanic(t) ==
    /\ rpc[t] = "index"
    /\ retItem' = [retItem EXCEPT ![t] =
                      IF ridx[t] >= 0 /\ ridx[t] < Len(list[t])
                      THEN list[t][ridx[t] + 1] ELSE NilItem]
    /\ overlap' = [overlap EXCEPT ![t] =
                      mu # None /\ epoch[t] = <<mu, Len(returned)>>]
    /\ rpc' = [rpc EXCEPT ![t] = "done"]
    /\ UNCHANGED <<v, mu, nextAddr, rop, ritem, ridx, list, newList, retIdx,
                   fault, validAtCall, epoch, returned>>
    /\ UNCHANGED notReg

\* return list[index]: Go's bounds check panics outside 0..len(list)-1.
GetIndex(t) ==
    /\ rpc[t] = "index"
    /\ IF ridx[t] >= 0 /\ ridx[t] < Len(list[t])
       THEN /\ retItem' = [retItem EXCEPT ![t] = list[t][ridx[t] + 1]]
            /\ UNCHANGED fault
       ELSE /\ fault' = [fault EXCEPT ![t] = TRUE]
            /\ UNCHANGED retItem
    /\ overlap' = [overlap EXCEPT ![t] =
                      mu # None /\ epoch[t] = <<mu, Len(returned)>>]
    /\ rpc' = [rpc EXCEPT ![t] = "done"]
    /\ UNCHANGED <<v, mu, nextAddr, rop, ritem, ridx, list, newList, retIdx,
                   validAtCall, epoch, returned>>
    /\ UNCHANGED notReg

\* The caller has taken the result; the goroutine is free to call again.
RForget(t) ==
    /\ rpc[t] = "done"
    /\ rpc' = [rpc EXCEPT ![t] = "idle"]
    /\ rop' = [rop EXCEPT ![t] = None]
    /\ ritem' = [ritem EXCEPT ![t] = NilItem]
    /\ ridx' = [ridx EXCEPT ![t] = 0]
    /\ list' = [list EXCEPT ![t] = <<>>]
    /\ retIdx' = [retIdx EXCEPT ![t] = -1]
    /\ retItem' = [retItem EXCEPT ![t] = NilItem]
    /\ fault' = [fault EXCEPT ![t] = FALSE]
    /\ validAtCall' = [validAtCall EXCEPT ![t] = FALSE]
    /\ epoch' = [epoch EXCEPT ![t] = <<None, 0>>]
    /\ overlap' = [overlap EXCEPT ![t] = FALSE]
    /\ UNCHANGED <<v, mu, nextAddr, newList, returned>>
    /\ UNCHANGED notReg

NextReg ==
    \E t \in RThreads :
        \/ \E f \in Filters : registerCompactionFilter(t, f)
        \/ AppendLock(t)
        \/ AppendLoad(t)
        \/ AppendMake(t)
        \/ AppendCopy(t)
        \/ AppendSet(t)
        \/ AppendStore(t)
        \/ AppendReturn(t)
        \/ \E i \in Indices : compactionfilter_name(t, i)
        \/ GetLoad(t)
        \/ GetIndex(t)
        \/ RForget(t)

\* --------------------------- the DB over an engine that is a key-value map
\* One client goroutine calls Put, GetBytes, Delete, Close and IsOpened on
\* one DB; with a single caller each method runs from entry to return
\* without interference, so each is one step.

\* Keys and values are []byte; a value may be empty.
KVKeys == {<<1>>, <<2>>}
KVValues == {<<>>, <<7>>, <<7, 8>>}

\* byteToChar(b): nil for an empty slice, else a pointer to b's first byte.
byteToChar(b) == [null |-> Len(b) = 0, mem |-> b]
\* The n bytes the engine reads at p (rocksdb's Slice(p, n)).
SliceOf(p, n) == SubSeq(p.mem, 1, n)
\* What rocksdb_get hands back: a malloc'd copy and its length, or NULL.
NullBuf == [null |-> TRUE, mem |-> <<>>]
CopyString(b) == [null |-> FALSE, mem |-> b]
\* C.GoBytes(p, n): a fresh Go slice holding the n bytes at p.
GoBytes(p, n) == [isNil |-> FALSE, bytes |-> SubSeq(p.mem, 1, n)]
NilBytes == [isNil |-> TRUE, bytes |-> <<>>]

Absent == [present |-> FALSE, val |-> <<>>]
Present(b) == [present |-> TRUE, val |-> b]

\* The engine: rocksdb_put, rocksdb_delete, rocksdb_get on a map.
EnginePut(store, cKey, keyLen, cValue, valLen) ==
    [store EXCEPT ![SliceOf(cKey, keyLen)] = Present(SliceOf(cValue, valLen))]
EngineDelete(store, cKey, keyLen) ==
    [store EXCEPT ![SliceOf(cKey, keyLen)] = Absent]
EngineGet(store, cKey, keyLen) ==
    LET e == store[SliceOf(cKey, keyLen)]
    IN  IF e.present THEN [cValue |-> CopyString(e.val), cValLen |-> Len(e.val)]
        ELSE [cValue |-> NullBuf, cValLen |-> 0]

NoCall == [op |-> None, key |-> <<>>, val |-> NilBytes, err |-> None,
           open |-> TRUE]
CallRec(o, k, val, e) ==
    [op |-> o, key |-> k, val |-> val, err |-> e, open |-> kvOpened = 1]

\* The end-to-end sequence on one key: Put, GetBytes, Delete, GetBytes,
\* Close, IsOpened. kvScen counts the calls of it made in a row.
ScenSteps == <<"Put", "GetBytes", "Delete", "GetBytes", "Close", "IsOpened">>
NoScen == [n |-> 0, key |-> <<>>]
ScenNext(o, k) ==
    IF /\ kvScen.n < Len(ScenSteps)
       /\ kvScen.n > 0
       /\ ScenSteps[kvScen.n + 1] = o
       /\ (o \in {"Close", "IsOpened"} \/ k = kvScen.key)
    THEN [kvScen EXCEPT !.n = @ + 1]
    ELSE IF o = "Put" /\ kvOpened = 1 THEN [n |-> 1, key |-> k]
    ELSE NoScen

InitKV ==
    /\ kvOpened = 1
    /\ kvHandle = "live"
    /\ kvStore = [k \in KVKeys |-> Absent]
    /\ kvLast = NoCall
    /\ kvExpect = [k \in KVKeys |-> Absent]
    /\ kvScen = NoScen
    /\ kvCrashed = FALSE

\* What a data call on a handle that rocksdb_close has released can do:
\* undefined; the process dies or the call comes back.
UseAfterClose(o, k) ==
    /\ kvHandle # "live"
    /\ \/ /\ kvCrashed' = TRUE
          /\ kvLast' = CallRec(o, k, NilBytes, "crash")
       \/ /\ kvLast' = CallRec(o, k, NilBytes, "nil")
          /\ UNCHANGED kvCrashed
    /\ kvScen' = NoScen
    /\ UNCHANGED <<kvOpened, kvHandle, kvStore, kvExpect>>

\* KVGetBytes handing back nil for a value of length zero.
KVGetBytes_EmptyAsNil(k) ==
    /\ ~kvCrashed
    /\ IF kvOpened = 0
       THEN kvLast' = CallRec("GetBytes", k, NilBytes, "errDBClosed")
       ELSE LET r == EngineGet(kvStore, byteToChar(k), Len(k))
            IN  kvLast' = CallRec("GetBytes", k,
                                  IF r.cValue.null \/ r.cValLen = 0
                                  THEN NilBytes
                                  ELSE GoBytes(r.cValue, r.cValLen),
                                  "nil")
    /\ kvScen' = ScenNext("GetBytes", k)
    /\ UNCHANGED <<kvOpened, kvHandle, kvStore, kvExpect, kvCrashed>>
    /\ UNCHANGED notKV

\* DB.GetBytes(opts, key): RLock; errDBClosed when opened == 0; rocksdb_get;
\* RUnlock; nil for a NULL result, else a copy of the bytes.
KVGetBytes(k) ==
    /\ ~kvCrashed
    /\ IF kvOpened = 0
       THEN kvLast' = CallRec("GetBytes", k, NilBytes, "errDBClosed")
       ELSE LET r == EngineGet(kvStore, byteToChar(k), Len(k))
            IN  kvLast' = CallRec("GetBytes", k,
                                  IF r.cValue.null THEN NilBytes
                                  ELSE GoBytes(r.cValue, r.cValLen),
                                  "nil")
    /\ kvScen' = ScenNext("GetBytes", k)
    /\ UNCHANGED <<kvOpened, kvHandle, kvStore, kvExpect, kvCrashed>>
    /\ UNCHANGED notKV

\* DB.Put(opts, key, value): rocksdb_put with no lock and no check.
KVPut(k, b) ==
    /\ ~kvCrashed
    /\ \/ /\ kvHandle = "live"
          /\ kvStore' = EnginePut(kvStore, byteToChar(k), Len(k),
                                  byteToChar(b), Len(b))
          /\ kvExpect' = [kvExpect EXCEPT ![k] = Present(b)]
          /\ kvLast' = CallRec("Put", k, NilBytes, "nil")
          /\ kvScen' = ScenNext("Put", k)
          /\ UNCHANGED <<kvOpened, kvHandle, kvCrashed>>
       \/ UseAfterClose("Put", k)
    /\ UNCHANGED notKV

\* DB.Delete(opts, key): rocksdb_delete with no lock and no check.
KVDelete(k) ==
    /\ ~kvCrashed
    /\ \/ /\ kvHandle = "live"
          /\ kvStore' = EngineDelete(kvStore, byteToChar(k), Len(k))
          /\ kvExpect' = [kvExpect EXCEPT ![k] = Absent]
          /\ kvLast' = CallRec("Delete", k, NilBytes, "nil")
          /\ kvScen' = ScenNext("Delete", k)
          /\ UNCHANGED <<kvOpened, kvHandle, kvCrashed>>
       \/ UseAfterClose("Delete", k)
    /\ UNCHANGED notKV

\* DB.Close(): Lock; rocksdb_close(db.c); StoreInt32(&db.opened, 0); Unlock.
KVClose ==
    /\ ~kvCrashed
    /\ \/ /\ kvHandle = "live"
          /\ kvHandle' = "freed"
          /\ kvOpened' = 0
          /\ kvLast' = CallRec("Close", <<>>, NilBytes, None)
          /\ kvScen' = ScenNext("Close", <<>>)
          /\ UNCHANGED <<kvStore, kvExpect, kvCrashed>>
       \/ UseAfterClose("Close", <<>>)
    /\ UNCHANGED notKV

\* DB.IsOpened(): atomic.LoadInt32(&db.opened) != 0.
KVIsOpened ==
    /\ ~kvCrashed
    /\ kvLast' = CallRec("IsOpened", <<>>, NilBytes,
                         IF kvOpened # 0 THEN "true" ELSE "false")
    /\ kvScen' = ScenNext("IsOpened", <<>>)
    /\ UNCHANGED <<kvOpened, kvHandle, kvStore, kvExpect, kvCrashed>>
    /\ UNCHANGED notKV

NextKV ==
    \/ \E k \in KVKeys, b \in KVValues : KVPut(k, b)
    \/ \E k \in KVKeys : KVGetBytes(k)
    \/ \E k \in KVKeys : KVDelete(k)
    \/ KVClose
    \/ KVIsOpened

\* ------------------------------------------------ the filter dispatch shim
\* The arguments the engine calls the shim with.
Levels == {0, 1}
FKeys == {<<1>>}
FVals == {<<>>, <<5>>}
\* A C buffer holding b, as the engine passes key and value.
CBuf(b) == [null |-> FALSE, mem |-> b]
\* charToByte(p, n): the n bytes at p as a Go []byte.
charToByte(p, n) == SubSeq(p.mem, 1, n)

\* What Filter(level, key, val) of a registered filter can return: the
\* nativeCompactionFilter always (false, nil); a host filter whatever it
\* likes, a nil, an empty or a non-empty newVal with either decision.
NewVals == {NilBytes, [isNil |-> FALSE, bytes |-> <<>>],
            [isNil |-> FALSE, bytes |-> <<9>>]}
\* FilterResults with the native filter free to answer like a host filter.
FilterResults_NativeUnknown(f) == [remove : BOOLEAN, newVal : NewVals]

FilterResults(f) ==
    IF f = "native" THEN {[remove |-> FALSE, newVal |-> NilBytes]}
    ELSE [remove : BOOLEAN, newVal : NewVals]

NoArgs == [level |-> 0, key |-> <<>>, val |-> <<>>]
NoRes == [remove |-> FALSE, newVal |-> NilBytes]
\* The slots as the engine sets them up before the call.
InitSlots == [cNewVal |-> NullBuf, cNewValLen |-> 0, cValChanged |-> 0]

InitFlt ==
    /\ fpc = [t \in RThreads |-> "idle"]
    /\ fargs = [t \in RThreads |-> NoArgs]
    /\ fres = [t \in RThreads |-> NoRes]
    /\ fout = [t \in RThreads |-> InitSlots]
    /\ fwrote = [t \in RThreads |-> {}]
    /\ fret = [t \in RThreads |-> -1]

\* gorocksdb_compactionfilter_filter(idx, cLevel, cKey, cKeyLen, cVal,
\* cValLen, cNewVal, cNewValLen, cValChanged): key and val are decoded and
\* compactionFilters.Get(idx) is called.
compactionfilter_filter(t, i, lvl, k, b) ==
    /\ rpc[t] = "idle"
    /\ fpc[t] = "idle"
    /\ fpc' = [fpc EXCEPT ![t] = "lookup"]
    /\ fargs' = [fargs EXCEPT ![t] =
                    [level |-> lvl, key |-> charToByte(CBuf(k), Len(k)),
                     val |-> charToByte(CBuf(b), Len(b))]]
    /\ fres' = [fres EXCEPT ![t] = NoRes]
    /\ fout' = [fout EXCEPT ![t] = InitSlots]
    /\ fwrote' = [fwrote EXCEPT ![t] = {}]
    /\ fret' = [fret EXCEPT ![t] = -1]
    /\ rop' = [rop EXCEPT ![t] = "Get"]
    /\ ridx' = [ridx EXCEPT ![t] = i]
    /\ rpc' = [rpc EXCEPT ![t] = "load"]
    /\ ritem' = [ritem EXCEPT ![t] = NilItem]
    /\ retIdx' = [retIdx EXCEPT ![t] = -1]
    /\ retItem' = [retItem EXCEPT ![t] = NilItem]
    /\ fault' = [fault EXCEPT ![t] = FALSE]
    /\ list' = [list EXCEPT ![t] = <<>>]
    /\ validAtCall' = [validAtCall EXCEPT ![t] = i \in ReturnedIdx]
    /\ overlap' = [overlap EXCEPT ![t] = FALSE]
    /\ epoch' = [epoch EXCEPT ![t] = <<None, 0>>]
    /\ UNCHANGED <<v, mu, nextAddr, newList, returned>>
    /\ UNCHANGED notFlt

\* Get(idx).(compactionFilterWrapper).filter.Filter(int(cLevel), key, val):
\* a panic in Get, or in the type assertion on a nil slot, goes through the
\* shim; otherwise the filter answers.
FilterInvoke(t) ==
    /\ fpc[t] = "lookup"
    /\ rpc[t] = "done"
    /\ IF fault[t] \/ retItem[t] = NilItem
       THEN /\ fpc' = [fpc EXCEPT ![t] = "panic"]
            /\ UNCHANGED fres
       ELSE /\ \E r \in FilterResults(retItem[t].filter) :
                  fres' = [fres EXCEPT ![t] = r]
            /\ fpc' = [fpc EXCEPT ![t] = "translate"]
    /\ UNCHANGED <<fargs, fout, fwrote, fret>>
    /\ UNCHANGED <<regVars, notFlt>>

\* The slots after *cNewVal = byteToChar(newVal); *cNewValLen =
\* C.size_t(len(newVal)); *cValChanged = C.uchar(1).
WrittenSlots(w) ==
    [cNewVal |-> byteToChar(w.bytes), cNewValLen |-> Len(w.bytes),
     cValChanged |-> 1]
AllSlots == {"cNewVal", "cNewValLen", "cValChanged"}

\* FilterTranslate without the nil test: the slots are written whenever the
\* entry is kept.
FilterTranslate_NoNilTest(t) ==
    /\ fpc[t] = "translate"
    /\ IF fres[t].remove
       THEN /\ fret' = [fret EXCEPT ![t] = 1]
            /\ UNCHANGED <<fout, fwrote>>
       ELSE /\ fret' = [fret EXCEPT ![t] = 0]
            /\ fout' = [fout EXCEPT ![t] = WrittenSlots(fres[t].newVal)]
            /\ fwrote' = [fwrote EXCEPT ![t] = AllSlots]
    /\ fpc' = [fpc EXCEPT ![t] = "done"]
    /\ UNCHANGED <<fargs, fres>>
    /\ UNCHANGED <<regVars, notFlt>>

\* FilterTranslate testing len(newVal) > 0 in place of newVal != nil.
FilterTranslate_LenTest(t) ==
    /\ fpc[t] = "translate"
    /\ IF fres[t].remove
       THEN /\ fret' = [fret EXCEPT ![t] = 1]
            /\ UNCHANGED <<fout, fwrote>>
       ELSE /\ fret' = [fret EXCEPT ![t] = 0]
            /\ IF Len(fres[t].newVal.bytes) > 0
               THEN /\ fout' = [fout EXCEPT ![t] = WrittenSlots(fres[t].newVal)]
                    /\ fwrote' = [fwrote EXCEPT ![t] = AllSlots]
               ELSE UNCHANGED <<fout, fwrote>>
    /\ fpc' = [fpc EXCEPT ![t] = "done"]
    /\ UNCHANGED <<fargs, fres>>
    /\ UNCHANGED <<regVars, notFlt>>

\* FilterTranslate writing the replacement before it looks at remove.
FilterTranslate_WriteFirst(t) ==
    /\ fpc[t] = "translate"
    /\ fret' = [fret EXCEPT ![t] = IF fres[t].remove THEN 1 ELSE 0]
    /\ IF ~fres[t].newVal.isNil
       THEN /\ fout' = [fout EXCEPT ![t] = WrittenSlots(fres[t].newVal)]
            /\ fwrote' = [fwrote EXCEPT ![t] = AllSlots]
       ELSE UNCHANGED <<fout, fwrote>>
    /\ fpc' = [fpc EXCEPT ![t] = "done"]
    /\ UNCHANGED <<fargs, fres>>
    /\ UNCHANGED <<regVars, notFlt>>

\* if remove { return 1 } else if newVal != nil { write the three slots };
\* return 0.
FilterTranslate(t) ==
    /\ fpc[t] = "translate"
    /\ IF fres[t].remove
       THEN /\ fret' = [fret EXCEPT ![t] = 1]
            /\ UNCHANGED <<fout, fwrote>>
       ELSE /\ fret' = [fret EXCEPT ![t] = 0]
            /\ IF ~fres[t].newVal.isNil
               THEN /\ fout' = [fout EXCEPT ![t] = WrittenSlots(fres[t].newVal)]
                    /\ fwrote' = [fwrote EXCEPT ![t] = AllSlots]
               ELSE UNCHANGED <<fout, fwrote>>
    /\ fpc' = [fpc EXCEPT ![t] = "done"]
    /\ UNCHANGED <<fargs, fres>>
    /\ UNCHANGED <<regVars, notFlt>>

\* The engine has taken the shim's answer; the goroutine is free again.
FilterForget(t) ==
    /\ fpc[t] = "done"
    /\ fpc' = [fpc EXCEPT ![t] = "idle"]
    /\ fargs' = [fargs EXCEPT ![t] = NoArgs]
    /\ fres' = [fres EXCEPT ![t] = NoRes]
    /\ fout' = [fout EXCEPT ![t] = InitSlots]
    /\ fwrote' = [fwrote EXCEPT ![t] = {}]
    /\ fret' = [fret EXCEPT ![t] = -1]
    /\ rpc' = [rpc EXCEPT ![t] = "idle"]
    /\ rop' = [rop EXCEPT ![t] = None]
    /\ ritem' = [ritem EXCEPT ![t] = NilItem]
    /\ ridx' = [ridx EXCEPT ![t] = 0]
    /\ list' = [list EXCEPT ![t] = <<>>]
    /\ retIdx' = [retIdx EXCEPT ![t] = -1]
    /\ retItem' = [retItem EXCEPT ![t] = NilItem]
    /\ fault' = [fault EXCEPT ![t] = FALSE]
    /\ validAtCall' = [validAtCall EXCEPT ![t] = FALSE]
    /\ epoch' = [epoch EXCEPT ![t] = <<None, 0>>]
    /\ overlap' = [overlap EXCEPT ![t] = FALSE]
    /\ UNCHANGED <<v, mu, nextAddr, newList, returned>>
    /\ UNCHANGED notFlt

\* The host goroutine that registers filters, and the engine's compaction
\* thread that calls the shim.
HostThreads == {"r1"}
EngineThreads == {"r2"}

\* Registrations by the host, and the engine's calls of the shim.
NextFlt ==
    \/ \E t \in HostThreads :
          \/ \E f \in Filters : registerCompactionFilter(t, f)
          \/ AppendLock(t)
          \/ AppendLoad(t)
          \/ AppendMake(t)
          \/ AppendCopy(t)
          \/ AppendSet(t)
          \/ AppendStore(t)
          \/ AppendReturn(t)
          \/ RForget(t)
    \/ \E t \in EngineThreads :
          \/ \E i \in Indices, lvl \in Levels, k \in FKeys, b \in FVals :
                compactionfilter_filter(t, i, lvl, k, b)
          \/ GetLoad(t)
          \/ GetIndex(t)
          \/ FilterInvoke(t)
          \/ FilterTranslate(t)
          \/ FilterForget(t)

\* ------------------------- OpenDbColumnFamilies and its read-only twin
MismatchText == "must provide the same number of column family names and options"
NoOpenArgs == [readOnly |-> FALSE, nNames |-> 0, nOpts |-> 0,
               errorIfLogFileExist |-> FALSE]
\* (*DB, []*ColumnFamilyHandle, error); handles = -1 stands for a nil slice.
NoOpenRet == [db |-> None, handles |-> -1, err |-> Unset]
OpenRet(d, h, e) == [db |-> d, handles |-> h, err |-> e]

InitOpen ==
    /\ oPc = "idle"
    /\ oArgs = NoOpenArgs
    /\ oAllocs = 0
    /\ oFrees = 0
    /\ oCalls = 0
    /\ oRet = NoOpenRet

\* OpenDbColumnFamilies(opts, name, cfNames, cfOpts) and
\* OpenDbForReadOnlyColumnFamilies(..., errorIfLogFileExist) are called with
\* n names and m options.
OpenDbColumnFamilies(ro, n, m, e) ==
    /\ oPc = "idle"
    /\ e => ro
    /\ oPc' = "check"
    /\ oArgs' = [readOnly |-> ro, nNames |-> n, nOpts |-> m,
                 errorIfLogFileExist |-> e]
    /\ oAllocs' = 0
    /\ oFrees' = 0
    /\ oCalls' = 0
    /\ oRet' = NoOpenRet
    /\ UNCHANGED notOpen

\* OpenLengthCheck without the comparison of the two lengths.
OpenLengthCheck_NoCheck ==
    /\ oPc = "check"
    /\ oPc' = "alloc"
    /\ UNCHANGED <<oArgs, oAllocs, oFrees, oCalls, oRet>>
    /\ UNCHANGED notOpen

\* numColumnFamilies := len(cfNames); if numColumnFamilies != len(cfOpts)
\* { return nil, nil, errors.New("must provide ...") }.
OpenLengthCheck ==
    /\ oPc = "check"
    /\ IF oArgs.nNames # oArgs.nOpts
       THEN /\ oPc' = "done"
            /\ oRet' = OpenRet("nil", -1, NewError(MismatchText))
       ELSE /\ oPc' = "alloc"
            /\ UNCHANGED oRet
    /\ UNCHANGED <<oArgs, oAllocs, oFrees, oCalls>>
    /\ UNCHANGED notOpen

\* cName := C.CString(name) and cNames[i] = C.CString(s) for every name, both
\* with a deferred free; cOpts and cHandles are Go slices.
OpenAlloc ==
    /\ oPc = "alloc"
    /\ oAllocs' = 1 + oArgs.nNames
    /\ oPc' = "args"
    /\ UNCHANGED <<oArgs, oFrees, oCalls, oRet>>
    /\ UNCHANGED notOpen

\* The arguments &cNames[0], &cOpts[0], &cHandles[0] are evaluated, which
\* panics (index out of range) when there are no column families: the
\* deferred frees run and nothing is returned. Otherwise
\* C.rocksdb_open_column_families (or its read-only twin) is entered.
OpenNativeBegin ==
    /\ oPc = "args"
    /\ IF oArgs.nNames = 0
       THEN /\ oPc' = "panic"
            /\ oFrees' = oAllocs
            /\ UNCHANGED oCalls
       ELSE /\ oPc' = "native"
            /\ oCalls' = oCalls + 1
            /\ UNCHANGED oFrees
    /\ UNCHANGED <<oArgs, oAllocs, oRet>>
    /\ UNCHANGED notOpen

\* The native open returns: if cErr != nil { return nil, nil,
\* errors.New(C.GoString(cErr)) }; otherwise the DB and one handle per column
\* family. The deferred frees of cName and cNames run in both cases.
OpenNativeEnd ==
    /\ oPc = "native"
    /\ \E out \in {""} \cup ErrMsgs :
          oRet' = IF out = ""
                  THEN OpenRet("db", oArgs.nNames, NilError)
                  ELSE OpenRet("nil", -1, NewError(GoString(EngineString(out))))
    /\ oFrees' = oAllocs
    /\ oPc' = "done"
    /\ UNCHANGED <<oArgs, oAllocs, oCalls>>
    /\ UNCHANGED notOpen

\* The caller has taken the result (or recovered from the panic).
OpenForget ==
    /\ oPc \in {"done", "panic"}
    /\ oPc' = "idle"
    /\ oArgs' = NoOpenArgs
    /\ oAllocs' = 0
    /\ oFrees' = 0
    /\ oCalls' = 0
    /\ oRet' = NoOpenRet
    /\ UNCHANGED notOpen

NextOpen ==
    \/ \E ro, e \in BOOLEAN, n, m \in 0..MaxCF :
          OpenDbColumnFamilies(ro, n, m, e)
    \/ OpenLengthCheck
    \/ OpenAlloc
    \/ OpenNativeBegin
    \/ OpenNativeEnd
    \/ OpenForget

\* ------------------------------------------------------ RateLimiter
\* The RateLimiter objects the host has, and the bytes_per_sec values it
\* passes.
Limiters == {"a", "b"}
Rates == -1..2
\* No native limiter (never created, or destroyed).
NoLimiter == [alive |-> FALSE, rate |-> 0]
RLCall(r, o, b, h, n) == [r |-> r, op |-> o, arg |-> b, c |-> h, calls |-> n]

\* Each a RateLimiter{} whose c is nil.
InitRL ==
    /\ rlC = [r \in Limiters |-> "nil"]
    /\ rlNative = [r \in Limiters |-> NoLimiter]
    /\ rlSets = [r \in Limiters |-> 0]
    /\ rlLast = RLCall(None, None, 0, "nil", 0)

\* NewGenericRateLimiter(bytes_per_sec, refill_period_us, fairness):
\* C.rocksdb_ratelimiter_create(...) and &RateLimiter{c}; the rate goes to
\* the engine as it comes.
NewGenericRateLimiter(r, b) ==
    /\ rlC[r] = "nil"
    /\ rlC' = [rlC EXCEPT ![r] = "ptr"]
    /\ rlNative' = [rlNative EXCEPT ![r] = [alive |-> TRUE, rate |-> b]]
    /\ rlSets' = [rlSets EXCEPT ![r] = 0]
    /\ rlLast' = RLCall(r, "NewGenericRateLimiter", b, rlC[r], 1)
    /\ UNCHANGED notRL

\* SetBytesPerSecond testing only the rate, not r.c.
SetBytesPerSecond_NoNilCheck(r, b) ==
    /\ rlSets[r] < MaxSets
    /\ IF b <= 0
       THEN /\ rlLast' = RLCall(r, "SetBytesPerSecond", b, rlC[r], 0)
            /\ UNCHANGED <<rlC, rlNative, rlSets>>
       ELSE /\ rlNative' = [rlNative EXCEPT ![r].rate = b]
            /\ rlSets' = [rlSets EXCEPT ![r] = @ + 1]
            /\ rlLast' = RLCall(r, "SetBytesPerSecond", b, rlC[r], 1)
            /\ UNCHANGED rlC
    /\ UNCHANGED notRL

\* if bytes_per_sec <= 0 || r.c == nil { return };
\* C.rocksdb_options_set_ratelimiter_bytes_per_second(r.c, bytes_per_sec).
SetBytesPerSecond(r, b) ==
    /\ rlSets[r] < MaxSets
    /\ IF b <= 0 \/ rlC[r] = "nil"
       THEN /\ rlLast' = RLCall(r, "SetBytesPerSecond", b, rlC[r], 0)
            /\ UNCHANGED <<rlC, rlNative, rlSets>>
       ELSE /\ rlNative' = [rlNative EXCEPT ![r].rate = b]
            /\ rlSets' = [rlSets EXCEPT ![r] = @ + 1]
            /\ rlLast' = RLCall(r, "SetBytesPerSecond", b, rlC[r], 1)
            /\ UNCHANGED rlC
    /\ UNCHANGED notRL

\* Destroy: C.rocksdb_ratelimiter_destroy(r.c); r.c = nil. Destroying a nil
\* handle deletes nothing.
Destroy(r) ==
    /\ rlNative' = [rlNative EXCEPT ![r] = NoLimiter]
    /\ rlC' = [rlC EXCEPT ![r] = "nil"]
    /\ rlSets' = [rlSets EXCEPT ![r] = 0]
    /\ rlLast' = RLCall(r, "Destroy", 0, rlC[r], 1)
    /\ UNCHANGED notRL

NextRL ==
    \E r \in Limiters :
        \/ \E b \in Rates : NewGenericRateLimiter(r, b)
        \/ \E b \in Rates : SetBytesPerSecond(r, b)
        \/ Destroy(r)

\* ------------------------------------------------------ specifications
Init == InitDB /\ InitReg /\ InitFlt /\ InitKV /\ InitOpen /\ InitRL

\* The DB handle under concurrent callers.
Spec == Init /\ [][NextDB]_vars

\* The callback registry under concurrent callers.
SpecReg == Init /\ [][NextReg]_vars

\* The filter dispatch shim over the registry.
SpecFlt == Init /\ [][NextFlt]_vars

\* One client on a DB whose engine is a key-to-value map.
SpecKV == Init /\ [][NextKV]_vars

\* The column-family open functions, one call after another.
SpecOpen == Init /\ [][NextOpen]_vars

\* One rate limiter and its caller.
SpecRL == Init /\ [][NextRL]_vars

\* ------------------------------------------------ claims about the DB

\* C1: with at most one Close, no Get, Put or NewIterator call is inside the
\* engine with the native handle after Close has released it, and none of
\* them ends in a crash: each completes or returns the closed error.
C1_NoUseOfReleasedHandle ==
    nClose <= 1 =>
        \A t \in Threads :
            op[t] \in {"Get", "Put", "NewIterator"} =>
                /\ pc[t] = "native" => c # "freed"
                /\ pc[t] # "fault"

\* C2: every DB operation invoked after Close has returned reports the
\* closed error: it never enters the engine with the released handle and
\* never returns a default value in place of the error.  The size queries
\* over an empty range list, which return before looking at the DB, are
\* left out, so that a violation is a call that did reach the DB.
C2_ClosedErrorAfterClose ==
    \A t \in Threads :
        (late[t] /\ op[t] \in DataOps /\ ~(op[t] \in RangeOps /\ nranges[t] = 0)) =>
            /\ pc[t] \notin {"native", "fault"}
            /\ pc[t] = "done" => IsClosedError(res[t])

\* C3: an error-returning operation that takes the shared lock and finds
\* opened == 0 makes no native call, returns errDBClosed, and no longer
\* holds the shared lock once it has returned.
C3_ClosedBranchOfGuardedOps ==
    \A t \in Threads :
        (op[t] \in GuardedErrOps /\ saw[t] = 0) =>
            /\ ncalls[t] = 0
            /\ pc[t] \in {"closed", "done"}
            /\ pc[t] = "closed" => t \in readers
            /\ pc[t] = "done" => res[t] = "errDBClosed" /\ t \notin readers

\* Two guarded operations have both found the DB closed and returned.
C3_Witness ==
    \E t, u \in Threads :
        /\ op[t] = "Flush" /\ op[u] = "Merge"
        /\ saw[t] = 0 /\ saw[u] = 0
        /\ pc[t] = "done" /\ pc[u] = "done"

\* C4: however often Close is called, rocksdb_close is called on the
\* handle at most once.
C4_HandleReleasedOnce == nativeCloses <= 1

C6_FlagClearedBeforeRelease == c = "freed" => opened = 0

\* ------------------------------------------ claims about the registry

\* A step of Get by goroutine t.
GetStep(t) == GetLoad(t) \/ GetIndex(t)
\* The wrapper whose Append returned index i.
ItemOf(i) ==
    returned[CHOOSE k \in 1..Len(returned) : returned[k].idx = i].item
\* Every slot of l holds a registered wrapper.
FullyBuilt(l) ==
    \A k \in 1..Len(l) : l[k] # NilItem /\ l[k].filter \in Filters

\* C7: the indices returned by the Appends so far are exactly 0..N-1, each
\* once, and Get(i) for a returned index i yields the item whose Append
\* returned i.
C7_IndicesDenseAndGetCorrect ==
    /\ ReturnedIdx = 0..(Len(returned) - 1)
    /\ Cardinality(ReturnedIdx) = Len(returned)
    /\ \A k \in 1..Len(returned) :
          /\ returned[k].idx < Len(v)
          /\ v[returned[k].idx + 1] = returned[k].item
    /\ \A t \in RThreads :
          (rop[t] = "Get" /\ rpc[t] = "done" /\ validAtCall[t]) =>
              ~fault[t] /\ retItem[t] = ItemOf(ridx[t])

\* Two goroutines' overlapping Appends have returned (the one called
\* first returned last), and a Get of a returned index has come back.
C7_Witness ==
    /\ Len(returned) >= 2
    /\ returned[1].t # returned[2].t
    /\ returned[1].item.name.addr > returned[2].item.name.addr
    /\ \E t \in RThreads :
          /\ rop[t] = "Get" /\ rpc[t] = "done" /\ validAtCall[t]
          /\ ridx[t] = 1 /\ retItem[t] = returned[2].item

\* C8: the published list never shrinks and no published entry (with the
\* C name captured at registration) is changed or removed; each Append
\* returns an index greater than every index returned before.
C8_AppendOnly ==
    /\ [](\A k \in 1..Len(v) :
             v[k] # NilItem /\ v[k].name.str = FilterName(v[k].filter))
    /\ [][/\ Len(v') >= Len(v)
          /\ \A k \in 1..Len(v) : v'[k] = v[k]
          /\ Len(returned') >= Len(returned)
          /\ \A k \in 1..Len(returned) : returned'[k] = returned[k]
          /\ \A j \in (Len(returned) + 1)..Len(returned') :
                \A k \in 1..Len(returned) :
                    returned'[j].idx > returned[k].idx]_vars

\* The list holds two entries and a later Get of index 0 still returns the
\* first one.
C8_Witness ==
    /\ Len(v) = 2
    /\ \E t \in RThreads :
          /\ rop[t] = "Get" /\ rpc[t] = "done" /\ ~fault[t]
          /\ ridx[t] = 0 /\ Len(list[t]) = 2
          /\ retItem[t] = returned[1].item

\* C9: Get never takes or waits for the registration mutex, and every list
\* it reads (and the published one) is complete: each slot holds a
\* registered wrapper and the list is a prefix of what is published now.
C9_GetLockFreeWholeList ==
    /\ [](/\ FullyBuilt(v)
          /\ \A t \in RThreads :
                rop[t] = "Get" =>
                    /\ rpc[t] \in {"load", "index"} => ENABLED GetStep(t)
                    /\ FullyBuilt(list[t])
                    /\ Len(list[t]) <= Len(v)
                    /\ \A k \in 1..Len(list[t]) : list[t][k] = v[k])
    /\ [][\A t \in RThreads : GetStep(t) => mu' = mu]_vars

\* A Get loaded the list and returned an entry inside one critical section
\* of an Append that is still holding the mutex with its copy half built.
C9_Witness ==
    \E t \in RThreads :
        /\ rop[t] = "Get" /\ rpc[t] = "done" /\ overlap[t] /\ ~fault[t]
        /\ mu \in RThreads \ {t}
        /\ rpc[mu] = "set"
        /\ newList[mu][Len(newList[mu])] = NilItem

\* C10: Get of an index outside the list it loaded panics, returns nothing
\* and changes nothing in the registry; Get of an index an Append had
\* returned before the call never panics.
C10_GetFaultsOutOfRange ==
    /\ [](\A t \in RThreads :
             (rop[t] = "Get" /\ rpc[t] = "done") =>
                 /\ fault[t] <=> (ridx[t] < 0 \/ ridx[t] >= Len(list[t]))
                 /\ fault[t] => retItem[t] = NilItem
                 /\ validAtCall[t] => ~fault[t])
    /\ [][\A t \in RThreads :
             GetStep(t) => v' = v /\ returned' = returned]_vars

\* One Get panicked on an index one past a non-empty list while another Get,
\* of an index returned earlier, came back with its entry.
C10_Witness ==
    \E t, u \in RThreads :
        /\ rop[t] = "Get" /\ rpc[t] = "done" /\ fault[t]
        /\ Len(list[t]) >= 1 /\ ridx[t] = Len(list[t])
        /\ rop[u] = "Get" /\ rpc[u] = "done" /\ validAtCall[u]
        /\ retItem[u] # NilItem

\* --------------------------------------------- claims about MultiGetBytes
MultiGetThreads == {t \in Threads : op[t] = "MultiGetBytes"}
\* The closed branch ran for the whole batch: every element nil/errDBClosed
\* and every key buffer freed once.
ClosedFilled(t) ==
    \A i \in 1..nkeys[t] :
        values[t][i] = "nil" /\ errs[t][i] = ErrDBClosed /\ cKeys[t][i] = 1
\* The call has acted on what it read from db.opened.
Decided(t) == saw[t] # -1 /\ pc[t] \notin {"locked", "open", "closed"}

\* C14: MultiGetBytes takes the shared lock once per call and, having read
\* the flag under it, either has issued the native multi-get for the batch
\* or has failed every element with errDBClosed and freed every key buffer;
\* no batch mixes elements read by the engine with elements failed as closed.
C14_BatchWholeOrClosed ==
    \A t \in MultiGetThreads :
        /\ nlocks[t] <= 1
        /\ pc[t] \notin {"start", "locked"} => nlocks[t] = 1
        /\ Decided(t) =>
              \/ saw[t] = 1 /\ ncalls[t] = 1
              \/ saw[t] = 0 /\ ncalls[t] = 0 /\ ClosedFilled(t)
        /\ ~ \E i, j \in 1..nkeys[t] :
                /\ errs[t][i] = ErrDBClosed
                /\ values[t][j] = "bytes" \/ errs[t][j].kind = "error"

\* C15: MultiGetBytes with an empty key list on an open DB makes no native
\* call and does not fault on the empty key array.
C15_EmptyKeyListReturns ==
    \A t \in MultiGetThreads :
        (nkeys[t] = 0 /\ saw[t] = 1) =>
            /\ ncalls[t] = 0
            /\ pc[t] # "panic"

\* ------------------------------------- claims about the DB, continued

\* C16: GetApproximateSizes(CF) with an empty range list returns an empty,
\* non-nil list, without the lock, without reading the flag and without a
\* native call, whether the DB is open or closed.
C16_EmptyRangesEmptySizes ==
    \A t \in Threads :
        (op[t] \in SizesOps /\ nranges[t] = 0) =>
            /\ pc[t] \in {"start", "done"}
            /\ nlocks[t] = 0 /\ t \notin readers
            /\ saw[t] = -1
            /\ ncalls[t] = 0
            /\ pc[t] = "done" => res[t] = "emptySlice"

C16_Witness ==
    \E t \in Threads :
        /\ op[t] \in SizesOps /\ nranges[t] = 0
        /\ late[t] /\ opened = 0
        /\ pc[t] = "done" /\ res[t] = "emptySlice"

\* A step taken by goroutine t.
StepOf(t) == pc'[t] # pc[t]

\* C17: no step of Shutdown changes the open flag or the native handle; the
\* flag changes only in Close's store, from 1 to 0; while no Close has begun
\* IsOpened answers true and a lock-guarded call that checks the flag passes;
\* and a Shutdown that finds the flag cleared makes no native call.
C17_ShutdownKeepsFlagAndHandle ==
    /\ [](\A t \in Threads :
            /\ (op[t] = "Shutdown" /\ saw[t] = 0) => ncalls[t] = 0
            /\ (nClose = 0 /\ saw[t] # -1) => saw[t] = 1
            /\ (nClose = 0 /\ op[t] = "IsOpened" /\ pc[t] = "done")
                  => res[t] = "true")
    /\ [][/\ \A t \in Threads :
                (op[t] = "Shutdown" /\ StepOf(t)) =>
                    /\ opened' = opened
                    /\ c' = c
                    /\ nativeCloses' = nativeCloses
          /\ opened' # opened =>
                /\ opened = 1 /\ opened' = 0
                /\ \E t \in Threads :
                      op[t] = "Close" /\ pc[t] = "closedNative" /\ StepOf(t)
         ]_vars

\* A Shutdown has gone through the engine and returned, the flag is still 1
\* and no Close has been invoked, and the other goroutine, in a lock-guarded
\* call, has passed the check and is inside the engine.
C17_Witness ==
    \E t, u \in Threads :
        /\ op[t] = "Shutdown" /\ pc[t] = "done" /\ ncalls[t] = 1
        /\ nClose = 0 /\ opened = 1 /\ c = "live"
        /\ op[u] \in GuardedErrOps /\ pc[u] = "native" /\ saw[u] = 1

WriteOps == {"Put", "PutCF", "Delete", "DeleteCF", "Merge", "MergeCF",
             "Write"}
\* The call has got as far as the engine or beyond.
PastEntry(t) == pc[t] \in {"native", "post", "unlocked", "done", "fault"}

\* C18 as stated: no write-path operation, Merge and MergeCF included, takes
\* the lock or reads the flag, and each reaches the engine after Close.
C18_WritePathUngated ==
    \A t \in Threads :
        op[t] \in WriteOps =>
            /\ nlocks[t] = 0
            /\ saw[t] = -1
            /\ (late[t] /\ pc[t] = "done") => ncalls[t] = 1

\* C18 amended: Put, PutCF, Delete, DeleteCF and Write take no lock, do not
\* read the flag and enter the engine even after Close; Merge and MergeCF
\* take the shared lock, read the flag under it and, after Close, return
\* errDBClosed without a native call.
C18_WritePathUngatedExceptMerge ==
    \A t \in Threads :
        /\ op[t] \in WriteOps \ {"Merge", "MergeCF"} =>
              /\ nlocks[t] = 0
              /\ saw[t] = -1
              /\ pc[t] \in {"start", "native", "unlocked", "done", "fault"}
              /\ PastEntry(t) => ncalls[t] = 1
        /\ op[t] \in {"Merge", "MergeCF"} =>
              /\ PastEntry(t) \/ pc[t] \in {"open", "closed"}
                    => nlocks[t] = 1 /\ saw[t] # -1
              /\ late[t] => ncalls[t] = 0
              /\ (late[t] /\ pc[t] = "done") => res[t] = "errDBClosed"

\* A Put invoked after Close has returned is inside the engine with the
\* released handle, while a Merge invoked after Close has returned the
\* closed error.
C18_Witness ==
    \E t, u \in Threads :
        /\ op[t] = "Put" /\ late[t] /\ pc[t] = "native" /\ c = "freed"
        /\ op[u] = "Merge" /\ late[u] /\ pc[u] = "done"
        /\ res[u] = "errDBClosed"

\* C19: when the engine has reported a failure string s to a call, the call
\* returns an error whose message is s, has made exactly one native call,
\* and (for lock-guarded methods) no longer holds the shared lock when it has
\* returned; in MultiGetBytes every element the engine failed carries the
\* engine's message for it.
C19_EngineErrorVerbatim ==
    \A t \in Threads :
        /\ cErr[t] # NullC =>
              /\ ncalls[t] = 1
              /\ pc[t] \in {"post", "unlocked", "done"}
              /\ pc[t] = "done" =>
                    /\ res[t] = "error"
                    /\ errText[t] = cErr[t].str
                    /\ t \notin readers
        /\ (op[t] = "MultiGetBytes" /\ pc[t] = "done" /\ saw[t] = 1) =>
              /\ ncalls[t] = 1
              /\ t \notin readers
              /\ \A i \in 1..nkeys[t] :
                    cErrs[t][i] # NullC =>
                        /\ errs[t][i].kind = "error"
                        /\ errs[t][i].text = cErrs[t][i].str
                        /\ values[t][i] = "nil"

\* A lock-guarded Get and the package-level OpenDb have each returned the
\* engine's message, two different ones.
C19_Witness ==
    \E t, u \in Threads :
        /\ op[t] = "Get" /\ pc[t] = "done" /\ res[t] = "error"
        /\ errText[t] = "Corruption"
        /\ op[u] = "OpenDb" /\ pc[u] = "done" /\ res[u] = "error"
        /\ errText[u] = "IO error"

\* ------------------------------ claims about the DB over a key-value map

\* C20: on an open DB, GetBytes(k) returns nil error and the value last Put
\* at k, or nil when k was never written or was deleted since; Close leaves
\* the flag cleared; and IsOpened after Close is false.
C20_PutGetDeleteClose ==
    /\ (kvLast.op = "GetBytes" /\ kvLast.open) =>
          /\ kvLast.err = "nil"
          /\ kvExpect[kvLast.key].present =>
                /\ ~kvLast.val.isNil
                /\ kvLast.val.bytes = kvExpect[kvLast.key].val
          /\ ~kvExpect[kvLast.key].present => kvLast.val = NilBytes
    /\ (kvLast.op \in {"Put", "Delete"} /\ kvLast.open) => kvLast.err = "nil"
    /\ (kvLast.op = "Close" /\ kvLast.open) =>
          kvOpened = 0 /\ kvHandle = "freed" /\ kvLast.err = None
                       /\ ~kvCrashed
    /\ (kvLast.op = "IsOpened" /\ kvHandle = "freed") => kvLast.err = "false"

\* The whole sequence has run on one key: Put, GetBytes, Delete, GetBytes,
\* Close, and IsOpened has answered false.
C20_Witness ==
    /\ kvScen.n = Len(ScenSteps)
    /\ kvLast.op = "IsOpened" /\ kvLast.err = "false"
    /\ ~kvExpect[kvScen.key].present

\* ------------------------------------ claims about the filter dispatch

\* C11: when the registered filter returns (false, nil) the shim returns 0
\* and assigns none of the engine's slots, whatever level, key and value.
C11_KeepUnchanged ==
    \A t \in RThreads :
        (fpc[t] = "done" /\ ~fres[t].remove /\ fres[t].newVal.isNil) =>
            /\ fret[t] = 0
            /\ fwrote[t] = {}
            /\ fout[t] = InitSlots

C11_Witness ==
    \E t \in RThreads :
        /\ fpc[t] = "done" /\ retItem[t].filter = "f1"
        /\ fargs[t].level = 0 /\ fargs[t].val = <<5>>
        /\ ~fres[t].remove /\ fres[t].newVal.isNil
        /\ fret[t] = 0

\* C12: when the registered filter returns (false, w) with w supplied, the
\* shim returns 0, sets the changed flag and leaves w's bytes and len(w) in
\* the output slots, also for a w of length zero.
C12_KeepReplaced ==
    \A t \in RThreads :
        (fpc[t] = "done" /\ ~fres[t].remove /\ ~fres[t].newVal.isNil) =>
            /\ fret[t] = 0
            /\ fout[t].cValChanged = 1
            /\ fout[t].cNewValLen = Len(fres[t].newVal.bytes)
            /\ SliceOf(fout[t].cNewVal, fout[t].cNewValLen)
                  = fres[t].newVal.bytes
            /\ fwrote[t] = AllSlots

\* The replacement of length zero: supplied, so the changed flag is set.
C12_Witness ==
    \E t \in RThreads :
        /\ fpc[t] = "done" /\ ~fres[t].remove
        /\ fres[t].newVal = [isNil |-> FALSE, bytes |-> <<>>]
        /\ fout[t].cValChanged = 1 /\ fout[t].cNewValLen = 0

\* C13: when the registered filter returns remove = true the shim returns 1
\* and assigns none of the engine's slots, whatever newVal came with it.
C13_RemoveIgnoresNewVal ==
    \A t \in RThreads :
        (fpc[t] = "done" /\ fres[t].remove) =>
            /\ fret[t] = 1
            /\ fwrote[t] = {}
            /\ fout[t] = InitSlots

C13_Witness ==
    \E t \in RThreads :
        /\ fpc[t] = "done" /\ fres[t].remove
        /\ ~fres[t].newVal.isNil /\ fres[t].newVal.bytes = <<9>>
        /\ fret[t] = 1

\* What the shim hands the engine for a filter answer r: the return value
\* and the slots.
Translated(r) ==
    [ret |-> IF r.remove THEN 1 ELSE 0,
     out |-> IF r.remove \/ r.newVal.isNil THEN InitSlots
             ELSE WrittenSlots(r.newVal)]

\* C21: the native filter sits in the registry like any other (with the empty
\* name), a dispatch to it goes through Get and Filter and ends in return 0
\* with no slot assigned, for every level, key and value; and what the shim
\* hands back depends on the filter's answer only, not on which filter it was.
C21_IdentityThroughSamePath ==
    /\ \A k \in 1..Len(v) :
          v[k].filter = "native" => v[k].name.str = ""
    /\ \A t \in RThreads :
          fpc[t] = "done" =>
              /\ rop[t] = "Get" /\ ~fault[t]
              /\ retItem[t] = list[t][ridx[t] + 1]
              /\ fret[t] = Translated(fres[t]).ret
              /\ fout[t] = Translated(fres[t]).out
              /\ retItem[t].filter = "native" =>
                    /\ fres[t] = [remove |-> FALSE, newVal |-> NilBytes]
                    /\ fret[t] = 0
                    /\ fout[t].cValChanged = 0
                    /\ fwrote[t] = {}

\* The native filter was registered second and a dispatch to its index, at
\* level 1 with a non-empty value, has returned 0.
C21_Witness ==
    \E t \in RThreads :
        /\ fpc[t] = "done" /\ ridx[t] = 1
        /\ retItem[t].filter = "native" /\ retItem[t].name.str = ""
        /\ fargs[t].level = 1 /\ fargs[t].val = <<5>>
        /\ fret[t] = 0 /\ fout[t] = InitSlots

\* ----------------------------- claims about the column-family open calls

\* C22: OpenDbColumnFamilies and OpenDbForReadOnlyColumnFamilies given
\* different numbers of names and options allocate no native buffer, make no
\* native open call, and return no DB, no handles and an error.
C22_CountMismatchFailsFast ==
    oArgs.nNames # oArgs.nOpts =>
        /\ oPc \in {"check", "done"}
        /\ oAllocs = 0
        /\ oCalls = 0
        /\ oPc = "done" =>
              /\ oRet.db = "nil"
              /\ oRet.handles = -1
              /\ oRet.err = NewError(MismatchText)

\* The read-only open has returned the error for two names and one option.
C22_Witness ==
    /\ oPc = "done"
    /\ oArgs.readOnly /\ oArgs.nNames = 2 /\ oArgs.nOpts = 1
    /\ oRet.err.kind = "error" /\ oRet.db = "nil"

\* ------------------------------ claims about the lock around the handle
\* Goroutine t is inside rocksdb_close.
InNativeClose(t) == op[t] = "Close" /\ pc[t] = "native"
\* Goroutine t is inside the native call of a lock-guarded operation.
InGuardedNative(t) == TakesRLock(op[t]) /\ pc[t] = "native"

\* C23: while a lock-taking operation is inside its native call no Close is
\* inside rocksdb_close and none has been; and no such operation enters its
\* native call once rocksdb_close has been entered.
C23_NativeCallsExcludeClose ==
    /\ [](\A t \in Threads :
             InGuardedNative(t) =>
                 /\ nativeCloses = 0 /\ c = "live"
                 /\ \A u \in Threads : ~InNativeClose(u)
                 /\ writer = None)
    /\ [][\A t \in Threads :
             (TakesRLock(op[t]) /\ pc[t] # "native" /\ pc'[t] = "native")
                 => nativeCloses = 0]_vars

\* A Flush is inside the engine while a Close, having announced itself, waits
\* for the lock.
C23_Witness ==
    \E t, u \in Threads :
        /\ op[t] = "Flush" /\ pc[t] = "native"
        /\ op[u] = "Close" /\ pc[u] = "lockwait" /\ pendingW = u

\* Goroutine t is about to call db.RLock().
AtRLock(t) ==
    /\ pc[t] = "start" /\ TakesRLock(op[t])
    /\ op[t] \in RangeOps => nranges[t] > 0
\* Goroutine u is in Close between db.Lock() and db.Unlock().
InCloseLock(u) ==
    /\ op[u] = "Close"
    /\ pc[u] \in {"lockwait", "wlocked", "native", "closedNative", "stored"}

\* C25: a lock-guarded operation about to take the shared lock is held back
\* exactly when some Close is between Lock and Unlock, never by the other
\* guarded operations, whatever they hold; so two of them can be inside their
\* native calls together.
C25_GuardedOpsRunTogether ==
    \A t \in Threads :
        (~crashed /\ AtRLock(t)) =>
            (ENABLED RLock(t) <=> ~ \E u \in Threads : InCloseLock(u))

\* A Get and a Flush are inside their native calls at the same time, both
\* holding the shared lock.
C25_Witness ==
    \E t, u \in Threads :
        /\ op[t] = "Get" /\ pc[t] = "native"
        /\ op[u] = "Flush" /\ pc[u] = "native"
        /\ readers = {t, u}

\* --------------------------- claims about MultiGetBytes, continued

\* C28: when MultiGetBytes has returned on the open path, every values[i] has
\* been assigned (a copy on a hit, nil on a miss or a failure), errs[i] holds
\* a new error for the elements the engine failed and, for all others, still
\* what the caller's slice held; until the result loop runs neither slice has
\* been touched.
C28_ErrsWrittenOnlyOnFailure ==
    \A t \in MultiGetThreads :
        /\ (saw[t] = 1 /\ pc[t] = "done") =>
              \A i \in 1..nkeys[t] :
                  /\ values[t][i] =
                        (IF cErrs[t][i] = NullC /\ cValues[t][i] # "null"
                         THEN "bytes" ELSE "nil")
                  /\ cErrs[t][i] = NullC => errs[t][i] = Unset
                  /\ cErrs[t][i] # NullC =>
                        errs[t][i] = NewError(cErrs[t][i].str)
        /\ (saw[t] = 1 /\ pc[t] # "done") =>
              \A i \in 1..nkeys[t] :
                  values[t][i] = "unset" /\ errs[t][i] = Unset

\* A batch of two has returned: the first key was found and its errs entry is
\* as the caller left it, the second failed and carries the engine's message.
C28_Witness ==
    \E t \in MultiGetThreads :
        /\ pc[t] = "done" /\ saw[t] = 1 /\ nkeys[t] = 2
        /\ values[t][1] = "bytes" /\ errs[t][1] = Unset
        /\ values[t][2] = "nil" /\ errs[t][2] = NewError("Corruption")

\* ---------------------------------- claims about native key buffers

\* C26: no key buffer of MultiGetBytes and no range-bound buffer of the size,
\* key-count and compact operations is ever freed twice, and each has been
\* freed once when the call has returned, through the open and the closed
\* branch alike; the size, key-count and compact operations that find the
\* DB closed have made no buffer.
C26_KeyBuffersFreedOnce ==
    \A t \in Threads :
        /\ op[t] = "MultiGetBytes" =>
              /\ Len(cKeys[t]) = nkeys[t]
              /\ \A i \in 1..nkeys[t] :
                    /\ cKeys[t][i] <= 1
                    /\ pc[t] = "done" => cKeys[t][i] = 1
        /\ op[t] \in RangeOps \cup CompactOps =>
              /\ \A i \in 1..Len(cRanges[t]) :
                    /\ cRanges[t][i] <= 1
                    /\ pc[t] = "done" => cRanges[t][i] = 1
              /\ saw[t] = 0 => cRanges[t] = <<>>
              /\ (op[t] \in RangeOps
                     /\ pc[t] \in {"native", "post", "unlocked", "done"}
                     /\ saw[t] = 1)
                    => Len(cRanges[t]) = 2 * nranges[t]

\* A key count over one range has returned on an open DB with both bound
\* buffers freed, and later a MultiGetBytes of two keys has returned through
\* the closed branch with both key buffers freed.
C26_Witness ==
    \E t, u \in Threads :
        /\ op[t] = "GetApproximateKeyNum" /\ pc[t] = "done" /\ saw[t] = 1
        /\ cRanges[t] = <<1, 1>>
        /\ op[u] = "MultiGetBytes" /\ pc[u] = "done" /\ saw[u] = 0
        /\ cKeys[u] = <<1, 1>>

\* ------------------------------------ claims about the lock, continued
\* Goroutine t is inside a call of a lock-guarded operation.
GuardedInFlight(t) ==
    /\ TakesRLock(op[t])
    /\ pc[t] \in {"start", "locked", "open", "closed", "native", "post",
                  "unlocked"}
\* Goroutine t holds the shared lock as part of a call that is under way.
BetweenRLockAndRUnlock(t) ==
    /\ TakesRLock(op[t])
    /\ pc[t] \in {"locked", "open", "closed", "native", "post"}

\* C24: the shared lock is held by exactly the guarded operations that are
\* between their RLock and their RUnlock, each holding it once, so that with
\* no guarded operation in flight nobody holds it (and a waiting Close can
\* go on).
C24_SharedLockReleasedOnce ==
    /\ \A t \in Threads : nlocks[t] <= 1
    /\ readers = {t \in Threads : BetweenRLockAndRUnlock(t)}
    /\ (\A t \in Threads : ~GuardedInFlight(t)) => readers = {}

\* A step of a call that is under way (anything but the start of a new call).
Progress ==
    \E t \in Threads :
        \/ EarlyReturn(t) \/ RLock(t) \/ CheckOpened(t) \/ ReadFlag(t)
        \/ ClosedReturn(t) \/ NativeBegin(t) \/ NativeEnd(t) \/ RUnlock(t)
        \/ Return(t) \/ IsOpened(t) \/ LockAnnounce(t) \/ LockAcquire(t)
        \/ CloseNativeBegin(t) \/ CloseNativeEnd(t) \/ StoreOpened(t)
        \/ Unlock(t) \/ MultiGetClosed(t) \/ MultiGetNativeBegin(t)
        \/ MultiGetNativeEnd(t) \/ MultiGetCollect(t)
\* Goroutine t is in a call that has neither returned nor panicked.
InFlight(t) == pc[t] \notin {"idle", "done", "panic"}

\* C27: as long as the engine has not taken the process down, whenever some
\* call is under way some call can take a step (no deadlock), no call takes
\* the DB lock more than once, and a call that has returned holds neither
\* side of the lock.
C27_NoDeadlockLockOnce ==
    /\ \A t \in Threads :
          /\ nlocks[t] <= 1
          /\ pc[t] = "done" => (t \notin readers /\ writer # t)
    /\ (~crashed /\ \E t \in Threads : InFlight(t)) => ENABLED Progress

\* --------------------------------------- claims about the RateLimiter

\* C29: a SetBytesPerSecond with a rate <= 0, or on a limiter whose handle is
\* nil, makes no native call and leaves every handle, every native limiter
\* and its rate as they were; after Destroy the handle is nil, so that holds
\* for every SetBytesPerSecond on the destroyed limiter; and the native call
\* is only ever made on a live limiter.
C29_SetRateNoOpWhenNilOrNonPositive ==
    /\ [](/\ (rlLast.op = "SetBytesPerSecond"
                 /\ (rlLast.arg <= 0 \/ rlLast.c = "nil"))
                => rlLast.calls = 0
          /\ rlLast.op = "Destroy" =>
                (rlC[rlLast.r] = "nil" /\ ~rlNative[rlLast.r].alive)
          /\ \A r \in Limiters : rlC[r] = "nil" <=> ~rlNative[r].alive
          /\ (rlLast.op = "SetBytesPerSecond" /\ rlLast.calls = 1) =>
                /\ rlNative[rlLast.r].alive
                /\ rlNative[rlLast.r].rate = rlLast.arg)
    /\ [][\A r \in Limiters, b \in Rates :
             (SetBytesPerSecond(r, b) /\ (b <= 0 \/ rlC[r] = "nil")) =>
                 /\ rlC' = rlC
                 /\ rlNative' = rlNative
                 /\ rlSets' = rlSets]_vars

\* Limiter a was destroyed and a SetBytesPerSecond(1) on it has returned
\* without a native call, while limiter b is alive with the rate it was
\* last given.
C29_Witness ==
    /\ rlLast = RLCall("a", "SetBytesPerSecond", 1, "nil", 0)
    /\ rlC["a"] = "nil" /\ ~rlNative["a"].alive
    /\ rlC["b"] = "ptr" /\ rlSets["b"] = 1 /\ rlNative["b"].rate = 2

====
